---- MODULE Spec2Model ----
(***************************************************************************)
(* Host-side transaction-signing ceremony of the Cardano hardware-wallet   *)
(* client: the request validator, the witness-path collector, the chunked  *)
(* transfer of oversized output fields and the stage orchestrator          *)
(* (signTransaction), driven one message at a time by a transport loop.    *)
(***************************************************************************)
EXTENDS Integers, Sequences, FiniteSets, TLC

(***************************************************************************)
(* Bounds of the model.                                                    *)
(***************************************************************************)
\* Inline datums and reference scripts of up to MaxChunks * C + 1 bytes are
\* tried (C the chunk limit): up to MaxChunks continuation chunks each.
MaxChunks == 2
\* Longest caller-supplied list of additional witness paths that is tried.
MaxAdditionalPaths == 3
\* Number of different transports (each answers with its own bytes).
NumSeeds == 2

(***************************************************************************)
(* Optional values (null / undefined of the source) and small helpers.     *)
(***************************************************************************)
Null == <<>>
Some(x) == <<x>>
IsNull(o) == Len(o) = 0
NotNull(o) == Len(o) = 1
Val(o) == o[1]

Min(a, b) == IF a <= b THEN a ELSE b

RECURSIVE Flatten(_)
Flatten(ss) == IF Len(ss) = 0 THEN <<>> ELSE Head(ss) \o Flatten(Tail(ss))

\* [f(s[1]), ..., f(s[n])] concatenated: a for-loop whose body yields f(x).
FlatMap(f(_), s) == Flatten([i \in 1..Len(s) |-> f(s[i])])

\* Array.prototype.some
SomeOf(s, P(_)) == \E i \in 1..Len(s) : P(s[i])

(***************************************************************************)
(* Byte and hex utilities (utils/serialize).  A hex string is a sequence   *)
(* of hex digits 0..15, two per byte; a buffer is a sequence of bytes.     *)
(***************************************************************************)
hex_to_buf(hex) ==
  [i \in 1..(Len(hex) \div 2) |-> 16 * hex[2 * i - 1] + hex[2 * i]]

buf_to_hex(buf) ==
  [i \in 1..(2 * Len(buf)) |->
     IF i % 2 = 1 THEN buf[(i + 1) \div 2] \div 16 ELSE buf[i \div 2] % 16]

uint32_to_buf(n) ==
  << (n \div 16777216) % 256, (n \div 65536) % 256, (n \div 256) % 256, n % 256 >>

\* String.prototype.substring(start, end) with 0 <= start <= end <= length
substring(hex, start, end) == SubSeq(hex, start + 1, end)

\* Buffer.prototype.subarray(start, end), clamped to the buffer
subarray(buf, start, end) == SubSeq(buf, start + 1, Min(end, Len(buf)))

\* The test payload of n bytes: byte k is (7k mod 251), so that bytes less
\* than 251 places apart differ.
HexOf(n) ==
  [i \in 1..(2 * n) |->
     IF i % 2 = 1 THEN ((7 * ((i + 1) \div 2)) % 251) \div 16
     ELSE ((7 * (i \div 2)) % 251) % 16]

(***************************************************************************)
(* Program constants.                                                      *)
(***************************************************************************)
\* the numerical values are meaningless (stage tags)
P1 == [ STAGE_INIT |-> 1, STAGE_AUX_DATA |-> 8, STAGE_INPUTS |-> 2,
        STAGE_OUTPUTS |-> 3, STAGE_FEE |-> 4, STAGE_TTL |-> 5,
        STAGE_CERTIFICATES |-> 6, STAGE_WITHDRAWALS |-> 7,
        STAGE_VALIDITY_INTERVAL_START |-> 9, STAGE_MINT |-> 11,
        STAGE_SCRIPT_DATA_HASH |-> 12, STAGE_COLLATERAL_INPUTS |-> 13,
        STAGE_REQUIRED_SIGNERS |-> 14, STAGE_COLLATERAL_OUTPUT |-> 18,
        STAGE_TOTAL_COLLATERAL |-> 16, STAGE_REFERENCE_INPUTS |-> 17,
        STAGE_CONFIRM |-> 10, STAGE_WITNESSES |-> 15 ]

P2_UNUSED == 0
P2_TokenBundle == [ ASSET_GROUP |-> 49, TOKEN |-> 50 ]
P2_Output == [ BASIC_DATA |-> 48, DATUM |-> 52, DATUM_CHUNK |-> 53,
               SCRIPT |-> 54, SCRIPT_CHUNK |-> 55, CONFIRM |-> 51 ]
P2_Pool == [ INIT |-> 48, POOL_KEY |-> 49, VRF_KEY |-> 50, FINANCIALS |-> 51,
             REWARD_ACCOUNT |-> 52, OWNERS |-> 53, RELAYS |-> 54,
             METADATA |-> 55, CONFIRMATION |-> 56 ]
P2_PoolLegacy == [ POOL_PARAMS |-> 48, OWNERS |-> 49, RELAYS |-> 50,
                   METADATA |-> 51, CONFIRMATION |-> 52 ]
P2_CVote == [ INIT |-> 54, VOTE_KEY |-> 48, DELEGATION |-> 55,
              STAKING_KEY |-> 49, PAYMENT_ADDRESS |-> 50, NONCE |-> 51,
              VOTING_PURPOSE |-> 53, CONFIRM |-> 52 ]
P2_Mint == [ BASIC_DATA |-> 48, CONFIRM |-> 51 ]

ED25519_SIGNATURE_LENGTH == 64
AUXILIARY_DATA_HASH_LENGTH == 32
TX_HASH_LENGTH == 32
\* Chunk limit C in bytes (serialization/txOutput).
MAX_CHUNK_SIZE == 240

(***************************************************************************)
(* Firmware versions and the capability matrix (getVersion).               *)
(***************************************************************************)
Version(major, minor) == [major |-> major, minor |-> minor, patch |-> 0]

Versions ==
  { Version(2, 1), Version(2, 2), Version(2, 3), Version(2, 4), Version(3, 0),
    Version(4, 0), Version(4, 1), Version(5, 0), Version(6, 0) }

isLedgerAppVersionAtLeast(version, major, minor) ==
  \/ version.major > major
  \/ version.major = major /\ version.minor >= minor

getCompatibility(version) ==
  [ isCompatible                       |-> isLedgerAppVersionAtLeast(version, 2, 2),
    supportsMary                       |-> isLedgerAppVersionAtLeast(version, 2, 2),
    supportsCatalystRegistration       |-> isLedgerAppVersionAtLeast(version, 2, 3),
    supportsZeroTtl                    |-> isLedgerAppVersionAtLeast(version, 2, 3),
    supportsPoolRegistrationAsOperator |-> isLedgerAppVersionAtLeast(version, 2, 4),
    supportsPoolRetirement             |-> isLedgerAppVersionAtLeast(version, 2, 4),
    supportsMultisigTransaction        |-> isLedgerAppVersionAtLeast(version, 3, 0),
    supportsMint                       |-> isLedgerAppVersionAtLeast(version, 3, 0),
    supportsAlonzo                     |-> isLedgerAppVersionAtLeast(version, 4, 0),
    supportsReqSignersInOrdinaryTx     |-> isLedgerAppVersionAtLeast(version, 4, 1),
    supportsBabbage                    |-> isLedgerAppVersionAtLeast(version, 5, 0),
    supportsCIP36                      |-> isLedgerAppVersionAtLeast(version, 6, 0),
    supportsCIP36Vote                  |-> isLedgerAppVersionAtLeast(version, 6, 0) ]

\* "ok", or the error thrown for a version below the minimum supported one.
ensureLedgerAppVersionCompatible(version) ==
  IF getCompatibility(version).isCompatible THEN "ok" ELSE "VersionIncompatible"

(***************************************************************************)
(* The typed signing request.  Key-derivation paths are sequences of       *)
(* integers; identity is structural equality.                              *)
(***************************************************************************)
PathPayment == << 1852, 1815, 0, 0, 0 >>
PathPayment2 == << 1852, 1815, 0, 0, 1 >>
PathStake == << 1852, 1815, 0, 2, 0 >>
PathPoolCold == << 1853, 1815, 0, 0 >>
PathVote == << 1694, 1815, 0, 0, 0 >>

NoPath == <<>>
NoCredential == [type |-> "NONE", path |-> NoPath]
NoPool == [owners |-> <<>>, poolKey |-> [type |-> "THIRD_PARTY", path |-> NoPath],
           relays |-> <<>>]
TheBundle ==
  << [policyId |-> "policyA", tokens |-> << "tokenA1", "tokenA2" >>],
     [policyId |-> "policyB", tokens |-> << "tokenB1" >>] >>

\* The features a request of the model is put together from.
ModeFeatures == { "multisig", "poolOperator", "plutus" }
AuxFeatures ==
  { "auxHash", "cip15Key", "cip15KeyPath", "cip15ThirdParty", "cip36Deleg",
    "cip36KeyPath", "cip36ThirdParty", "cip36Neither", "cip36Both",
    "cip36EmptyDeleg" }
GatedFeatures ==
  ModeFeatures \cup
  { "scriptAddress", "datumHash", "mapFormat", "ttlZero", "wdrScriptHash",
    "wdrKeyHash", "certDeregScript", "certDelegKeyHash", "poolRetirement",
    "mint", "validityStart", "scriptDataHash", "collateralInputs",
    "reqSignerPath", "networkId", "collateralOutput", "totalCollateral",
    "referenceInputs", "cip15Key", "cip36Deleg", "cip15KeyPath",
    "cip15ThirdParty" }
Features ==
  GatedFeatures \cup AuxFeatures \cup
  { "twoInputs", "inputNoPath", "dupInput", "datumInline", "refScript",
    "tokens", "twoOutputs", "ttl", "wdrKeyPath", "certRegistration",
    "certDelegation", "poolRegistration", "reqSignerHash", "extraWitness" }

If(c, s) == IF c THEN s ELSE <<>>

MkSigningMode(F) ==
  IF "multisig" \in F THEN "MULTISIG_TRANSACTION"
  ELSE IF "poolOperator" \in F THEN "POOL_REGISTRATION_AS_OPERATOR"
  ELSE IF "plutus" \in F THEN "PLUTUS_TRANSACTION"
  ELSE "ORDINARY_TRANSACTION"

MkOutput(F, datumLen, scriptLen) ==
  [ format |-> IF {"mapFormat", "datumInline", "refScript"} \cap F # {}
               THEN "MAP_BABBAGE" ELSE "ARRAY_LEGACY",
    destination |->
      IF "scriptAddress" \in F
      THEN [type |-> "DEVICE_OWNED",
            addressParams |-> [type |-> "BASE_PAYMENT_SCRIPT_STAKE_KEY"]]
      ELSE [type |-> "THIRD_PARTY", addressParams |-> [type |-> "NONE"]],
    tokenBundle |-> If("tokens" \in F, TheBundle),
    datum |->
      IF "datumInline" \in F
      THEN Some([type |-> "INLINE", datumHex |-> HexOf(datumLen)])
      ELSE IF "datumHash" \in F
      THEN Some([type |-> "HASH", datumHex |-> HexOf(MAX_CHUNK_SIZE + 1)])
      ELSE Null,
    referenceScriptHex |->
      IF "refScript" \in F THEN Some(HexOf(scriptLen)) ELSE Null ]

PlainOutput == MkOutput({}, 0, 0)

Cert(type, cred, path, pool) ==
  [type |-> type, stakeCredential |-> cred, path |-> path, pool |-> pool]

MkCertificates(F) ==
     If("certRegistration" \in F,
        << Cert("STAKE_REGISTRATION", [type |-> "KEY_PATH", path |-> PathStake],
                NoPath, NoPool) >>)
  \o If("certDelegation" \in F,
        << Cert("STAKE_DELEGATION", [type |-> "KEY_PATH", path |-> PathStake],
                NoPath, NoPool) >>)
  \o If("certDeregScript" \in F,
        << Cert("STAKE_DEREGISTRATION", [type |-> "SCRIPT_HASH", path |-> NoPath],
                NoPath, NoPool) >>)
  \o If("certDelegKeyHash" \in F,
        << Cert("STAKE_DELEGATION", [type |-> "KEY_HASH", path |-> NoPath],
                NoPath, NoPool) >>)
  \o If("poolRegistration" \in F,
        << Cert("STAKE_POOL_REGISTRATION", NoCredential, NoPath,
                [ owners |-> << [type |-> "THIRD_PARTY", path |-> NoPath],
                                [type |-> "DEVICE_OWNED", path |-> PathStake] >>,
                  poolKey |-> [type |-> "DEVICE_OWNED", path |-> PathPoolCold],
                  relays |-> << "relayA" >> ]) >>)
  \o If("poolRetirement" \in F,
        << Cert("STAKE_POOL_RETIREMENT", NoCredential, PathPoolCold, NoPool) >>)

CVote(format, key, keyPath, delegations, payment) ==
  [ type |-> "CIP36_REGISTRATION", hashHex |-> <<>>,
    params |-> [ format |-> format, votePublicKey |-> key,
                 votePublicKeyPath |-> keyPath, delegations |-> delegations,
                 stakingPath |-> PathStake,
                 paymentDestination |-> [type |-> payment],
                 nonce |-> "10", votingPurpose |-> "0" ] ]

TheKey == Some(HexOf(3))
TheDelegations == Some(<< "delegationA", "delegationB" >>)

MkAuxiliaryData(F) ==
  IF "auxHash" \in F
  THEN Some([type |-> "ARBITRARY_HASH", hashHex |-> HexOf(3),
             params |-> CVote("NONE", Null, Null, Null, "NONE").params])
  ELSE IF "cip15Key" \in F
  THEN Some(CVote("CIP_15", TheKey, Null, Null, "DEVICE_OWNED"))
  ELSE IF "cip15KeyPath" \in F
  THEN Some(CVote("CIP_15", Null, Some(PathVote), Null, "DEVICE_OWNED"))
  ELSE IF "cip15ThirdParty" \in F
  THEN Some(CVote("CIP_15", TheKey, Null, Null, "THIRD_PARTY"))
  ELSE IF "cip36Deleg" \in F
  THEN Some(CVote("CIP_36", Null, Null, TheDelegations, "DEVICE_OWNED"))
  ELSE IF "cip36KeyPath" \in F
  THEN Some(CVote("CIP_36", Null, Some(PathVote), Null, "DEVICE_OWNED"))
  ELSE IF "cip36ThirdParty" \in F
  THEN Some(CVote("CIP_36", TheKey, Null, Null, "THIRD_PARTY"))
  ELSE IF "cip36Neither" \in F
  THEN Some(CVote("CIP_36", Null, Null, Null, "DEVICE_OWNED"))
  ELSE IF "cip36Both" \in F
  THEN Some(CVote("CIP_36", TheKey, Null, TheDelegations, "DEVICE_OWNED"))
  ELSE IF "cip36EmptyDeleg" \in F
  THEN Some(CVote("CIP_36", Null, Null, Some(<<>>), "DEVICE_OWNED"))
  ELSE Null

MkTx(F, datumLen, scriptLen) ==
  [ inputs |->
         << [path |-> Some(PathPayment)] >>
      \o If("twoInputs" \in F, << [path |-> Some(PathPayment2)] >>)
      \o If("inputNoPath" \in F, << [path |-> Null] >>)
      \o If("dupInput" \in F, << [path |-> Some(PathPayment)] >>),
    outputs |->
         << MkOutput(F, datumLen, scriptLen) >>
      \o If("twoOutputs" \in F, << PlainOutput >>),
    fee |-> "42",
    ttl |-> IF "ttlZero" \in F THEN Some("0")
            ELSE IF "ttl" \in F THEN Some("10") ELSE Null,
    certificates |-> MkCertificates(F),
    withdrawals |->
         If("wdrKeyPath" \in F,
            << [stakeCredential |-> [type |-> "KEY_PATH", path |-> PathStake]] >>)
      \o If("wdrScriptHash" \in F,
            << [stakeCredential |-> [type |-> "SCRIPT_HASH", path |-> NoPath]] >>)
      \o If("wdrKeyHash" \in F,
            << [stakeCredential |-> [type |-> "KEY_HASH", path |-> NoPath]] >>),
    auxiliaryData |-> MkAuxiliaryData(F),
    validityIntervalStart |-> IF "validityStart" \in F THEN Some("7") ELSE Null,
    mint |-> IF "mint" \in F THEN Some(TheBundle) ELSE Null,
    scriptDataHashHex |-> IF "scriptDataHash" \in F THEN Some(HexOf(3)) ELSE Null,
    collateralInputs |->
      If("collateralInputs" \in F,
         << [path |-> Some(PathPayment)], [path |-> Null] >>),
    requiredSigners |->
         If("reqSignerPath" \in F, << [type |-> "PATH", path |-> PathStake] >>)
      \o If("reqSignerHash" \in F, << [type |-> "HASH", path |-> NoPath] >>),
    includeNetworkId |-> "networkId" \in F,
    collateralOutput |->
      IF "collateralOutput" \in F
      THEN Some(MkOutput({"tokens", "datumInline", "refScript"},
                         MAX_CHUNK_SIZE + 1, MAX_CHUNK_SIZE + 1))
      ELSE Null,
    totalCollateral |-> IF "totalCollateral" \in F THEN Some("5") ELSE Null,
    referenceInputs |->
      If("referenceInputs" \in F, << [path |-> Some(PathPayment2)] >>) ]

MkRequest(F, datumLen, scriptLen, additionalWitnessPaths) ==
  [ tx |-> MkTx(F, datumLen, scriptLen),
    signingMode |-> MkSigningMode(F),
    additionalWitnessPaths |-> additionalWitnessPaths ]

(***************************************************************************)
(* Witness path collection.                                                *)
(***************************************************************************)
DigitChars == << "0", "1", "2", "3", "4", "5", "6", "7", "8", "9" >>

RECURSIVE NumberToString(_)
NumberToString(n) ==
  IF n < 10 THEN << DigitChars[n + 1] >>
  ELSE NumberToString(n \div 10) \o << DigitChars[(n % 10) + 1] >>

RECURSIVE JoinNumbers(_)
JoinNumbers(p) ==
  IF Len(p) = 0 THEN <<>>
  ELSE IF Len(p) = 1 THEN NumberToString(p[1])
  ELSE NumberToString(p[1]) \o << "," >> \o JoinNumbers(Tail(p))

\* JSON.stringify of an array of numbers, as the sequence of its characters.
JSON_stringify(p) == << "[" >> \o JoinNumbers(p) \o << "]" >>

\* A property key that is a canonical array index ("0", "17", ...): an object
\* lists such keys first, in ascending numeric order, whatever the order they
\* were inserted in.
IsArrayIndex(key) ==
  /\ Len(key) > 0
  /\ \A i \in 1..Len(key) : \E d \in 1..10 : key[i] = DigitChars[d]
  /\ Len(key) = 1 \/ key[1] # "0"

RECURSIVE ParseIndex(_)
ParseIndex(key) ==
  IF Len(key) = 0 THEN 0
  ELSE 10 * ParseIndex(SubSeq(key, 1, Len(key) - 1))
       + (CHOOSE d \in 0..9 : DigitChars[d + 1] = key[Len(key)])

\* A variant of SetProperty where a key set again moves to the end.
SetProperty_moveToEnd(obj, key, value) ==
  Append(SelectSeq(obj, LAMBDA e : e.key # key), [key |-> key, value |-> value])

\* obj[key] = value on an object kept as its list of own properties in
\* insertion order: an existing key keeps its place and gets the new value.
SetProperty(obj, key, value) ==
  IF \E i \in 1..Len(obj) : obj[i].key = key
  THEN [i \in 1..Len(obj) |->
          IF obj[i].key = key THEN [key |-> key, value |-> value] ELSE obj[i]]
  ELSE Append(obj, [key |-> key, value |-> value])

RECURSIVE SortByIndex(_)
SortByIndex(props) ==
  IF Len(props) = 0 THEN <<>>
  ELSE LET m == CHOOSE i \in 1..Len(props) :
                  \A j \in 1..Len(props) :
                    ParseIndex(props[i].key) <= ParseIndex(props[j].key)
       IN << props[m] >>
          \o SortByIndex(SubSeq(props, 1, m - 1) \o SubSeq(props, m + 1, Len(props)))

\* Object.values: array-index keys in ascending order, then the other keys in
\* insertion order.
Object_values(obj) ==
  LET indexed == SelectSeq(obj, LAMBDA e : IsArrayIndex(e.key))
      named == SelectSeq(obj, LAMBDA e : ~IsArrayIndex(e.key))
      ordered == SortByIndex(indexed) \o named
  IN [i \in 1..Len(ordered) |-> ordered[i].value]

RECURSIVE uniquifier(_)
uniquifier(witnessPaths) ==
  IF Len(witnessPaths) = 0 THEN <<>>
  ELSE LET p == witnessPaths[Len(witnessPaths)]
       IN SetProperty(uniquifier(SubSeq(witnessPaths, 1, Len(witnessPaths) - 1)),
                      JSON_stringify(p), p)

uniquify(witnessPaths) == Object_values(uniquifier(witnessPaths))

inputWitness(input) == If(NotNull(input.path), << Val(input.path) >>)

\* A variant that takes the pool key of a pool registration before its owners.
certificateWitnesses_poolKeyFirst(cert) ==
  IF cert.type \in {"STAKE_DELEGATION", "STAKE_DEREGISTRATION"}
  THEN If(cert.stakeCredential.type = "KEY_PATH", << cert.stakeCredential.path >>)
  ELSE IF cert.type = "STAKE_POOL_REGISTRATION"
  THEN If(cert.pool.poolKey.type = "DEVICE_OWNED", << cert.pool.poolKey.path >>)
       \o FlatMap(LAMBDA owner : If(owner.type = "DEVICE_OWNED", << owner.path >>),
                  cert.pool.owners)
  ELSE IF cert.type = "STAKE_POOL_RETIREMENT"
  THEN << cert.path >>
  ELSE <<>>

certificateWitnesses(cert) ==
  IF cert.type \in {"STAKE_DELEGATION", "STAKE_DEREGISTRATION"}
  THEN If(cert.stakeCredential.type = "KEY_PATH", << cert.stakeCredential.path >>)
  ELSE IF cert.type = "STAKE_POOL_REGISTRATION"
  THEN FlatMap(LAMBDA owner : If(owner.type = "DEVICE_OWNED", << owner.path >>),
               cert.pool.owners)
       \o If(cert.pool.poolKey.type = "DEVICE_OWNED", << cert.pool.poolKey.path >>)
  ELSE IF cert.type = "STAKE_POOL_RETIREMENT"
  THEN << cert.path >>
  ELSE <<>>

withdrawalWitness(withdrawal) ==
  If(withdrawal.stakeCredential.type = "KEY_PATH",
     << withdrawal.stakeCredential.path >>)

requiredSignerWitness(signer) == If(signer.type = "PATH", << signer.path >>)

\* A variant of the list that walks the transaction in every signing mode.
witnessPathsToUniquify_anyMode(request) ==
     FlatMap(inputWitness, request.tx.inputs)
  \o FlatMap(certificateWitnesses, request.tx.certificates)
  \o FlatMap(withdrawalWitness, request.tx.withdrawals)
  \o FlatMap(requiredSignerWitness, request.tx.requiredSigners)
  \o FlatMap(inputWitness, request.tx.collateralInputs)
  \o request.additionalWitnessPaths

\* The list gatherWitnessPaths has built when it calls uniquify.
witnessPathsToUniquify(request) ==
  LET tx == request.tx
  IN If(request.signingMode # "MULTISIG_TRANSACTION",
           FlatMap(inputWitness, tx.inputs)
        \o FlatMap(certificateWitnesses, tx.certificates)
        \o FlatMap(withdrawalWitness, tx.withdrawals)
        \o FlatMap(requiredSignerWitness, tx.requiredSigners)
        \o FlatMap(inputWitness, tx.collateralInputs))
     \o request.additionalWitnessPaths

gatherWitnessPaths(request) == uniquify(witnessPathsToUniquify(request))

(***************************************************************************)
(* The request validator.                                                  *)
(***************************************************************************)
TruthyString(o) == NotNull(o) /\ Val(o) # ""
TruthyHex(o) == NotNull(o) /\ Len(Val(o)) > 0

\* A variant that looks at the delegation certificates only.
hasStakeCredentialInCertificates_delegationOnly(tx, stakeCredentialType) ==
  SomeOf(tx.certificates,
         LAMBDA c : /\ c.type = "STAKE_DELEGATION"
                    /\ c.stakeCredential.type = stakeCredentialType)

hasStakeCredentialInCertificates(tx, stakeCredentialType) ==
  SomeOf(tx.certificates,
         LAMBDA c : /\ c.type \in {"STAKE_DELEGATION", "STAKE_DEREGISTRATION",
                                   "STAKE_REGISTRATION"}
                    /\ c.stakeCredential.type = stakeCredentialType)

\* A variant that looks for the credential in the certificates only.
hasStakeCredentialInWithdrawals_inCertificates(tx, stakeCredentialType) ==
  hasStakeCredentialInCertificates(tx, stakeCredentialType)

hasStakeCredentialInWithdrawals(tx, stakeCredentialType) ==
  SomeOf(tx.withdrawals, LAMBDA w : w.stakeCredential.type = stakeCredentialType)

scriptAddressTypes ==
  { "BASE_PAYMENT_KEY_STAKE_SCRIPT", "BASE_PAYMENT_SCRIPT_STAKE_KEY",
    "BASE_PAYMENT_SCRIPT_STAKE_SCRIPT", "ENTERPRISE_SCRIPT", "POINTER_SCRIPT",
    "REWARD_SCRIPT" }

hasScriptHashInAddressParams(tx) ==
  SomeOf(tx.outputs,
         LAMBDA o : /\ o.destination.type = "DEVICE_OWNED"
                    /\ o.destination.addressParams.type \in scriptAddressTypes)

\* A variant that takes no auxiliary data for a voting registration.
isCVoteRegistration_never(auxiliaryData) == FALSE

isCVoteRegistration(auxiliaryData) ==
  NotNull(auxiliaryData) /\ Val(auxiliaryData).type = "CIP36_REGISTRATION"

\* "ok", or the feature named by the error of the first check that fails.
ensureRequestSupportedByAppVersion(version, request) ==
  LET c == getCompatibility(version)
      tx == request.tx
      mode == request.signingMode
      aux == tx.auxiliaryData
  IN
  IF mode = "POOL_REGISTRATION_AS_OPERATOR" /\ ~c.supportsPoolRegistrationAsOperator
  THEN "Pool registration as operator"
  ELSE IF mode = "MULTISIG_TRANSACTION" /\ ~c.supportsMultisigTransaction
  THEN "Multisig transactions"
  ELSE IF mode = "PLUTUS_TRANSACTION" /\ ~c.supportsAlonzo
  THEN "Plutus transactions"
  ELSE IF hasScriptHashInAddressParams(tx) /\ ~c.supportsMultisigTransaction
  THEN "Script hash in address parameters in output"
  ELSE IF SomeOf(tx.outputs, LAMBDA o : NotNull(o.datum)) /\ ~c.supportsAlonzo
  THEN "Datum in output"
  ELSE IF SomeOf(tx.outputs, LAMBDA o : o.format = "MAP_BABBAGE") /\ ~c.supportsBabbage
  THEN "Outputs with map format"
  ELSE IF NotNull(tx.ttl) /\ Val(tx.ttl) = "0" /\ ~c.supportsZeroTtl
  THEN "Zero TTL"
  ELSE IF hasStakeCredentialInWithdrawals(tx, "SCRIPT_HASH")
          /\ ~c.supportsMultisigTransaction
  THEN "Script hash in withdrawal"
  ELSE IF hasStakeCredentialInWithdrawals(tx, "KEY_HASH") /\ ~c.supportsAlonzo
  THEN "Key hash in withdrawal"
  ELSE IF SomeOf(tx.certificates, LAMBDA x : x.type = "STAKE_POOL_RETIREMENT")
          /\ ~c.supportsPoolRetirement
  THEN "Pool retirement certificate"
  ELSE IF hasStakeCredentialInCertificates(tx, "SCRIPT_HASH")
          /\ ~c.supportsMultisigTransaction
  THEN "Script hash in certificate stake credential"
  ELSE IF hasStakeCredentialInCertificates(tx, "KEY_HASH") /\ ~c.supportsAlonzo
  THEN "Key hash in certificate stake credential"
  ELSE IF NotNull(tx.mint) /\ ~c.supportsMint
  THEN "Mint"
  ELSE IF TruthyString(tx.validityIntervalStart) /\ ~c.supportsMary
  THEN "Validity interval start"
  ELSE IF TruthyHex(tx.scriptDataHashHex) /\ ~c.supportsAlonzo
  THEN "Script data hash"
  ELSE IF Len(tx.collateralInputs) > 0 /\ ~c.supportsAlonzo
  THEN "Collateral inputs"
  ELSE IF Len(tx.requiredSigners) > 0 /\ ~c.supportsAlonzo
  THEN "Required signers"
  ELSE IF Len(tx.requiredSigners) > 0 /\ ~c.supportsReqSignersInOrdinaryTx
          /\ mode = "ORDINARY_TRANSACTION"
  THEN "Required signers in ordinary transaction"
  ELSE IF Len(tx.requiredSigners) > 0 /\ ~c.supportsReqSignersInOrdinaryTx
          /\ mode = "MULTISIG_TRANSACTION"
  THEN "Required signers in multisig transaction"
  ELSE IF tx.includeNetworkId /\ ~c.supportsAlonzo
  THEN "Network id in tx body"
  ELSE IF NotNull(tx.collateralOutput) /\ ~c.supportsBabbage
  THEN "Collateral output"
  ELSE IF TruthyString(tx.totalCollateral) /\ ~c.supportsBabbage
  THEN "Total collateral"
  ELSE IF Len(tx.referenceInputs) > 0 /\ ~c.supportsBabbage
  THEN "Reference inputs"
  ELSE IF isCVoteRegistration(aux) /\ Val(aux).params.format = "CIP_15"
          /\ ~c.supportsCatalystRegistration
  THEN "Catalyst registration"
  ELSE IF isCVoteRegistration(aux) /\ Val(aux).params.format = "CIP_36"
          /\ ~c.supportsCIP36
  THEN "CIP36 registration"
  ELSE IF isCVoteRegistration(aux) /\ NotNull(Val(aux).params.votePublicKeyPath)
          /\ ~c.supportsCIP36Vote
  THEN "Vote key derivation path in CIP15/CIP36 registration"
  ELSE IF isCVoteRegistration(aux)
          /\ Val(aux).params.paymentDestination.type # "DEVICE_OWNED"
          /\ ~c.supportsCIP36
  THEN "CIP36 payment addresses not owned by the device"
  ELSE "ok"

(***************************************************************************)
(* Messages and the steps of an interaction.  An Interaction is the list   *)
(* of its steps in program order: each "yield" step hands one message to   *)
(* the driver and says which local the response is bound to; a "throw"     *)
(* step ends the interaction with an error.                                *)
(***************************************************************************)
\* The payload of a message: the serializer that made it, what it was given,
\* and the payload bytes where the ceremony itself lays them out.
Serialized(fn, arg) == [fn |-> fn, arg |-> arg, bytes |-> <<>>]
Bytes(fn, bytes) == [fn |-> fn, arg |-> <<>>, bytes |-> bytes]

send(p1, p2, data, expectedResponseLength) ==
  [ ins |-> "SIGN_TX", p1 |-> p1, p2 |-> p2, data |-> data,
    expectedResponseLength |-> expectedResponseLength ]

Step(op, msg, bind, path, error) ==
  [op |-> op, msg |-> msg, bind |-> bind, path |-> path, error |-> error]

NoMessage == send(0, 0, Bytes("none", <<>>), Null)

\* yield send(...)
Yield(msg) == Step("yield", msg, "none", NoPath, "")
\* const response = yield send(...), used for the named local
YieldFor(msg, bind, path) == Step("yield", msg, bind, path, "")
\* throw Error(...), or a failed assert
Throw(error) == Step("throw", NoMessage, "none", NoPath, error)

\* The steps that run: those up to the first throw.
RECURSIVE UntilThrow(_)
UntilThrow(steps) ==
  IF Len(steps) = 0 THEN <<>>
  ELSE IF Head(steps).op = "throw" THEN << Head(steps) >>
  ELSE << Head(steps) >> \o UntilThrow(Tail(steps))

(***************************************************************************)
(* The stages.                                                             *)
(***************************************************************************)
\* A variant that declares one witness per input.
signTx_init_oneWitnessPerInput(tx, signingMode, witnessPaths, version) ==
  << Yield(send(P1.STAGE_INIT, P2_UNUSED,
                Serialized("serializeTxInit",
                           [ signingMode |-> signingMode,
                             numWitnesses |-> Len(tx.inputs) ]),
                Some(0))) >>

signTx_init(tx, signingMode, witnessPaths, version) ==
  << Yield(send(P1.STAGE_INIT, P2_UNUSED,
                Serialized("serializeTxInit",
                           [ signingMode |-> signingMode,
                             numWitnesses |-> Len(witnessPaths) ]),
                Some(0))) >>

signTx_addInput(input) ==
  << Yield(send(P1.STAGE_INPUTS, P2_UNUSED,
                Serialized("serializeTxInput", input), Some(0))) >>

\* The while loop of signTx_addOutput_sendChunks, entered with this start.
RECURSIVE sendChunksFrom(_, _, _)
sendChunksFrom(hex, p2, start) ==
  IF start < Len(hex)
  THEN LET end == Min(Len(hex), start + MAX_CHUNK_SIZE * 2)
           chunk == substring(hex, start, end)
       IN << Yield(send(P1.STAGE_OUTPUTS, p2,
                        Bytes("Buffer.concat",
                              uint32_to_buf(Len(chunk) \div 2) \o hex_to_buf(chunk)),
                        Some(0))) >>
          \o sendChunksFrom(hex, p2, end)
  ELSE <<>>

\* A variant of the loop that starts at the first chunk.
signTx_addOutput_sendChunks_fromFirstChunk(hex, p2) ==
  sendChunksFrom(hex, p2, MAX_CHUNK_SIZE)

\* A variant that sends all that is left of the field as one chunk.
signTx_addOutput_sendChunks_oneChunk(hex, p2) ==
  LET chunk == substring(hex, MAX_CHUNK_SIZE * 2, Len(hex))
  IN << Yield(send(P1.STAGE_OUTPUTS, p2,
                   Bytes("Buffer.concat",
                         uint32_to_buf(Len(chunk) \div 2) \o hex_to_buf(chunk)),
                   Some(0))) >>

signTx_addOutput_sendChunks(hex, p2) ==
  \* First chunk is already sent with previous APDU, so we start with 2nd chunk
  sendChunksFrom(hex, p2, MAX_CHUNK_SIZE * 2)

tokenMessage(p1, token) ==
  << Yield(send(p1, P2_TokenBundle.TOKEN, Serialized("serializeToken", token),
                Some(0))) >>

assetGroupMessages(p1, assetGroup) ==
  << Yield(send(p1, P2_TokenBundle.ASSET_GROUP,
                Serialized("serializeAssetGroup", assetGroup), Some(0))) >>
  \o FlatMap(LAMBDA token : tokenMessage(p1, token), assetGroup.tokens)

\* A variant that sends every asset-group message before the first token.
signTx_addTokenBundle_groupsThenTokens(tokenBundle, p1) ==
     [i \in 1..Len(tokenBundle) |->
        Yield(send(p1, P2_TokenBundle.ASSET_GROUP,
                   Serialized("serializeAssetGroup", tokenBundle[i]), Some(0)))]
  \o FlatMap(LAMBDA assetGroup :
               FlatMap(LAMBDA token : tokenMessage(p1, token), assetGroup.tokens),
             tokenBundle)

signTx_addTokenBundle(tokenBundle, p1) ==
  FlatMap(LAMBDA assetGroup : assetGroupMessages(p1, assetGroup), tokenBundle)

\* The part of an oversized field embedded in the stage's initiating message:
\* its first 2C hex characters.
inlineSlice(hex) == substring(hex, 0, Min(Len(hex), MAX_CHUNK_SIZE * 2))

serializeTxOutputDatum(datum, version) ==
  IF datum.type = "INLINE"
  THEN [ fn |-> "serializeTxOutputDatum", arg |-> "INLINE",
         bytes |-> hex_to_buf(inlineSlice(datum.datumHex)) ]
  ELSE [ fn |-> "serializeTxOutputDatum", arg |-> "HASH",
         bytes |-> hex_to_buf(datum.datumHex) ]

serializeTxOutputRefScript(referenceScriptHex) ==
  [ fn |-> "serializeTxOutputRefScript", arg |-> "SCRIPT",
    bytes |-> hex_to_buf(inlineSlice(referenceScriptHex)) ]

\* A variant that sends the reference script ahead of the datum.
signTx_addOutput_scriptBeforeDatum(output, version) ==
     << Yield(send(P1.STAGE_OUTPUTS, P2_Output.BASIC_DATA,
                   Serialized("serializeTxOutputBasicParams", output.format),
                   Some(0))) >>
  \o signTx_addTokenBundle(output.tokenBundle, P1.STAGE_OUTPUTS)
  \o If(TruthyHex(output.referenceScriptHex),
           << Yield(send(P1.STAGE_OUTPUTS, P2_Output.SCRIPT,
                         serializeTxOutputRefScript(Val(output.referenceScriptHex)),
                         Some(0))) >>
        \o If(Len(Val(output.referenceScriptHex)) > 2 * MAX_CHUNK_SIZE,
              signTx_addOutput_sendChunks(Val(output.referenceScriptHex),
                                          P2_Output.SCRIPT_CHUNK)))
  \o If(NotNull(output.datum),
           << Yield(send(P1.STAGE_OUTPUTS, P2_Output.DATUM,
                         serializeTxOutputDatum(Val(output.datum), version),
                         Some(0))) >>
        \o If(/\ Val(output.datum).type = "INLINE"
              /\ Len(Val(output.datum).datumHex) > 2 * MAX_CHUNK_SIZE,
              signTx_addOutput_sendChunks(Val(output.datum).datumHex,
                                          P2_Output.DATUM_CHUNK)))
  \o << Yield(send(P1.STAGE_OUTPUTS, P2_Output.CONFIRM,
                   Bytes("Buffer.concat", <<>>), Some(0))) >>

signTx_addOutput(output, version) ==
     \* Basic data
     << Yield(send(P1.STAGE_OUTPUTS, P2_Output.BASIC_DATA,
                   Serialized("serializeTxOutputBasicParams", output.format),
                   Some(0))) >>
  \o signTx_addTokenBundle(output.tokenBundle, P1.STAGE_OUTPUTS)
     \* Datum
  \o If(NotNull(output.datum),
           << Yield(send(P1.STAGE_OUTPUTS, P2_Output.DATUM,
                         serializeTxOutputDatum(Val(output.datum), version),
                         Some(0))) >>
           \* Datum Chunks
        \o If(/\ Val(output.datum).type = "INLINE"
              /\ Len(Val(output.datum).datumHex) > 2 * MAX_CHUNK_SIZE,
              signTx_addOutput_sendChunks(Val(output.datum).datumHex,
                                          P2_Output.DATUM_CHUNK)))
     \* Reference Script
  \o If(TruthyHex(output.referenceScriptHex),
           << Yield(send(P1.STAGE_OUTPUTS, P2_Output.SCRIPT,
                         serializeTxOutputRefScript(Val(output.referenceScriptHex)),
                         Some(0))) >>
           \* Script chunks
        \o If(Len(Val(output.referenceScriptHex)) > 2 * MAX_CHUNK_SIZE,
              signTx_addOutput_sendChunks(Val(output.referenceScriptHex),
                                          P2_Output.SCRIPT_CHUNK)))
  \o << Yield(send(P1.STAGE_OUTPUTS, P2_Output.CONFIRM,
                   Bytes("Buffer.concat", <<>>), Some(0))) >>

poolMessage(p2, fn, arg) ==
  Yield(send(P1.STAGE_CERTIFICATES, p2, Serialized(fn, arg), Some(0)))

signTx_addStakePoolRegistrationCertificate(certificate) ==
  IF certificate.type # "STAKE_POOL_REGISTRATION"
  THEN << Throw("invalid certificate type") >>
  ELSE
  LET pool == certificate.pool
  IN << poolMessage(P2_Pool.INIT, "serializePoolInitialParams", "pool"),
        poolMessage(P2_Pool.POOL_KEY, "serializePoolKey", pool.poolKey),
        poolMessage(P2_Pool.VRF_KEY, "hex_to_buf", "vrfHashHex"),
        poolMessage(P2_Pool.FINANCIALS, "serializeFinancials", "pool"),
        poolMessage(P2_Pool.REWARD_ACCOUNT, "serializePoolRewardAccount",
                    "rewardAccount") >>
     \o [i \in 1..Len(pool.owners) |->
           poolMessage(P2_Pool.OWNERS, "serializePoolOwner", pool.owners[i])]
     \o [i \in 1..Len(pool.relays) |->
           poolMessage(P2_Pool.RELAYS, "serializePoolRelay", pool.relays[i])]
     \o << poolMessage(P2_Pool.METADATA, "serializePoolMetadata", "metadata"),
           poolMessage(P2_Pool.CONFIRMATION, "Buffer.alloc", "") >>

signTx_addStakePoolRegistrationCertificateLegacy(certificate) ==
  IF certificate.type # "STAKE_POOL_REGISTRATION"
  THEN << Throw("invalid certificate type") >>
  ELSE
  LET pool == certificate.pool
  IN << poolMessage(P2_PoolLegacy.POOL_PARAMS, "serializePoolInitialParamsLegacy",
                    "pool") >>
     \o [i \in 1..Len(pool.owners) |->
           poolMessage(P2_PoolLegacy.OWNERS, "serializePoolOwner", pool.owners[i])]
     \o [i \in 1..Len(pool.relays) |->
           poolMessage(P2_PoolLegacy.RELAYS, "serializePoolRelay", pool.relays[i])]
     \o << poolMessage(P2_PoolLegacy.METADATA, "serializePoolMetadata", "metadata"),
           poolMessage(P2_PoolLegacy.CONFIRMATION, "Buffer.alloc", "") >>

\* A variant that uses the richer layout on every version.
signTx_addCertificate_richLayoutAlways(certificate, version) ==
     << Yield(send(P1.STAGE_CERTIFICATES, P2_UNUSED,
                   Serialized("serializeTxCertificate", certificate.type),
                   Some(0))) >>
  \o If(certificate.type = "STAKE_POOL_REGISTRATION",
        signTx_addStakePoolRegistrationCertificate(certificate))

signTx_addCertificate(certificate, version) ==
     << Yield(send(P1.STAGE_CERTIFICATES, P2_UNUSED,
                   Serialized("serializeTxCertificate", certificate.type),
                   Some(0))) >>
     \* additional data for pool certificate
  \o If(certificate.type = "STAKE_POOL_REGISTRATION",
        IF getCompatibility(version).supportsPoolRegistrationAsOperator
        THEN signTx_addStakePoolRegistrationCertificate(certificate)
        ELSE signTx_addStakePoolRegistrationCertificateLegacy(certificate))

signTx_addWithdrawal(withdrawal, version) ==
  << Yield(send(P1.STAGE_WITHDRAWALS, P2_UNUSED,
                Serialized("serializeTxWithdrawal", withdrawal), Some(0))) >>

signTx_setFee(fee) ==
  << Yield(send(P1.STAGE_FEE, P2_UNUSED, Serialized("serializeTxFee", fee),
                Some(0))) >>

signTx_setTtl(ttl) ==
  << Yield(send(P1.STAGE_TTL, P2_UNUSED, Serialized("serializeTxTtl", ttl),
                Some(0))) >>

cVoteMessage(p2, fn, arg) ==
  Yield(send(P1.STAGE_AUX_DATA, p2, Serialized(fn, arg), Some(0)))

\* A variant that sends the init message itself, on every version, ahead of the
\* vote key.
cVoteKeyOrDelegations_withInit(params, version) ==
  << cVoteMessage(P2_CVote.INIT, "serializeCVoteRegistrationInit",
                  params.format),
     cVoteMessage(P2_CVote.VOTE_KEY, "serializeCVoteRegistrationVoteKey",
                  "voteKey") >>

\* The vote key, or the delegations, or the error of a payload with neither.
cVoteKeyOrDelegations(params, version) ==
  IF TruthyHex(params.votePublicKey) \/ NotNull(params.votePublicKeyPath)
  THEN << cVoteMessage(P2_CVote.VOTE_KEY, "serializeCVoteRegistrationVoteKey",
                       "voteKey") >>
  ELSE IF NotNull(params.delegations)
  THEN [i \in 1..Len(Val(params.delegations)) |->
          cVoteMessage(P2_CVote.DELEGATION, "serializeCVoteRegistrationDelegation",
                       Val(params.delegations)[i])]
  ELSE \* should have been caught by previous validation
       << Throw("wrong CIP36 registration params") >>

signTx_setAuxiliaryData(auxiliaryData, version) ==
  IF auxiliaryData.type \notin {"ARBITRARY_HASH", "CIP36_REGISTRATION"}
  THEN << Throw("Auxiliary data type not implemented") >>
  ELSE
     << Yield(send(P1.STAGE_AUX_DATA, P2_UNUSED,
                   Serialized("serializeTxAuxiliaryData", auxiliaryData.type),
                   Some(0))) >>
  \o If(auxiliaryData.type = "CIP36_REGISTRATION",
        LET params == auxiliaryData.params
        IN If(getCompatibility(version).supportsCIP36,
              \* this APDU was not used previously for Catalyst
              << cVoteMessage(P2_CVote.INIT, "serializeCVoteRegistrationInit",
                              params.format) >>)
           \o cVoteKeyOrDelegations(params, version)
           \o << cVoteMessage(P2_CVote.STAKING_KEY,
                              "serializeCVoteRegistrationStakingPath",
                              params.stakingPath),
                 cVoteMessage(P2_CVote.PAYMENT_ADDRESS,
                              "serializeCVoteRegistrationPaymentDestination",
                              params.paymentDestination),
                 cVoteMessage(P2_CVote.NONCE, "serializeCVoteRegistrationNonce",
                              params.nonce) >>
           \o If(getCompatibility(version).supportsCIP36,
                 << cVoteMessage(P2_CVote.VOTING_PURPOSE,
                                 "serializeCVoteRegistrationVotingPurpose",
                                 params.votingPurpose) >>)
           \o << YieldFor(send(P1.STAGE_AUX_DATA, P2_CVote.CONFIRM,
                               Bytes("Buffer.alloc", <<>>),
                               Some(AUXILIARY_DATA_HASH_LENGTH
                                    + ED25519_SIGNATURE_LENGTH)),
                          "auxiliaryDataSupplement", NoPath) >>)

signTx_setAuxiliaryData_before_v2_3(auxiliaryData) ==
  IF auxiliaryData.type # "ARBITRARY_HASH"
  THEN << Throw("Auxiliary data type not implemented") >>
  ELSE << Yield(send(P1.STAGE_AUX_DATA, P2_UNUSED,
                     Bytes("hex_to_buf", hex_to_buf(auxiliaryData.hashHex)),
                     Some(0))) >>

signTx_setValidityIntervalStart(validityIntervalStartStr) ==
  \* no expectedResponseLength is given
  << Yield(send(P1.STAGE_VALIDITY_INTERVAL_START, P2_UNUSED,
                Serialized("serializeTxValidityStart", validityIntervalStartStr),
                Null)) >>

signTx_setMint(mint) ==
     \* Basic data
     << Yield(send(P1.STAGE_MINT, P2_Mint.BASIC_DATA,
                   Serialized("serializeMintBasicParams", Len(mint)), Some(0))) >>
  \o signTx_addTokenBundle(mint, P1.STAGE_MINT)
  \o << Yield(send(P1.STAGE_MINT, P2_Mint.CONFIRM, Bytes("Buffer.alloc", <<>>),
                   Some(0))) >>

signTx_setScriptDataHash(scriptDataHash) ==
  \* no expectedResponseLength is given
  << Yield(send(P1.STAGE_SCRIPT_DATA_HASH, P2_UNUSED,
                Bytes("hex_to_buf", hex_to_buf(scriptDataHash)), Null)) >>

signTx_addCollateralInput(collateralInput) ==
  << Yield(send(P1.STAGE_COLLATERAL_INPUTS, P2_UNUSED,
                Serialized("serializeTxInput", collateralInput), Some(0))) >>

signTx_addRequiredSigner(requiredSigner) ==
  << Yield(send(P1.STAGE_REQUIRED_SIGNERS, P2_UNUSED,
                Serialized("serializeRequiredSigner", requiredSigner),
                Some(0))) >>

\* A variant that sends the datum of the collateral output as well.
signTx_addCollateralOutput_withDatum(collateralOutput, version) ==
     << Yield(send(P1.STAGE_COLLATERAL_OUTPUT, P2_Output.BASIC_DATA,
                   Serialized("serializeTxOutputBasicParams",
                              collateralOutput.format),
                   Some(0))) >>
  \o signTx_addTokenBundle(collateralOutput.tokenBundle,
                           P1.STAGE_COLLATERAL_OUTPUT)
  \o If(NotNull(collateralOutput.datum),
        << Yield(send(P1.STAGE_COLLATERAL_OUTPUT, P2_Output.DATUM,
                      serializeTxOutputDatum(Val(collateralOutput.datum), version),
                      Some(0))) >>)
  \o << Yield(send(P1.STAGE_COLLATERAL_OUTPUT, P2_Output.CONFIRM,
                   Bytes("Buffer.concat", <<>>), Some(0))) >>

signTx_addCollateralOutput(collateralOutput, version) ==
     \* Basic data
     << Yield(send(P1.STAGE_COLLATERAL_OUTPUT, P2_Output.BASIC_DATA,
                   Serialized("serializeTxOutputBasicParams",
                              collateralOutput.format),
                   Some(0))) >>
  \o signTx_addTokenBundle(collateralOutput.tokenBundle,
                           P1.STAGE_COLLATERAL_OUTPUT)
  \o << Yield(send(P1.STAGE_COLLATERAL_OUTPUT, P2_Output.CONFIRM,
                   Bytes("Buffer.concat", <<>>), Some(0))) >>

signTx_addTotalCollateral(totalCollateral) ==
  << Yield(send(P1.STAGE_TOTAL_COLLATERAL, P2_UNUSED,
                Serialized("serializeTotalCollateral", totalCollateral),
                Some(0))) >>

signTx_addReferenceInput(referenceInput) ==
  << Yield(send(P1.STAGE_REFERENCE_INPUTS, P2_UNUSED,
                Serialized("serializeTxInput", referenceInput), Some(0))) >>

signTx_awaitConfirm ==
  << YieldFor(send(P1.STAGE_CONFIRM, P2_UNUSED, Bytes("Buffer.alloc", <<>>),
                   Some(TX_HASH_LENGTH)),
              "txHashHex", NoPath) >>

signTx_getWitness(path) ==
  << YieldFor(send(P1.STAGE_WITNESSES, P2_UNUSED,
                   Serialized("serializeTxWitnessRequest", path),
                   Some(ED25519_SIGNATURE_LENGTH)),
              "witness", path) >>

(***************************************************************************)
(* The stage orchestrator: the steps of signTransaction in program order.  *)
(***************************************************************************)
\* A variant that sends the auxiliary data first only from CIP36 on.
auxDataBeforeTxBody_cip36Only(version) ==
  getCompatibility(version).supportsCIP36

auxDataBeforeTxBody(version) ==
  \/ getCompatibility(version).supportsCatalystRegistration
  \/ getCompatibility(version).supportsCIP36

\* A variant of the order with the fee sent after the ttl.
StageOrder_feeAfterTtl ==
  << "init", "auxiliaryData", "inputs", "outputs", "ttl", "fee", "certificates",
     "withdrawals", "auxiliaryDataLegacy", "validityStart", "mint",
     "scriptDataHash", "collateralInputs", "requiredSigners",
     "collateralOutput", "totalCollateral", "referenceInputs", "confirm",
     "witnesses" >>

\* A variant of the order that asks for the witnesses before the confirmation.
StageOrder_witnessesBeforeConfirm ==
  << "init", "auxiliaryData", "inputs", "outputs", "fee", "ttl", "certificates",
     "withdrawals", "auxiliaryDataLegacy", "validityStart", "mint",
     "scriptDataHash", "collateralInputs", "requiredSigners",
     "collateralOutput", "totalCollateral", "referenceInputs", "witnesses",
     "confirm" >>

\* A variant of the order that leaves the ttl stage out.
StageOrder_withoutTtl ==
  << "init", "auxiliaryData", "inputs", "outputs", "fee", "certificates",
     "withdrawals", "auxiliaryDataLegacy", "validityStart", "mint",
     "scriptDataHash", "collateralInputs", "requiredSigners",
     "collateralOutput", "totalCollateral", "referenceInputs", "confirm",
     "witnesses" >>

\* The order of the stages in signTransaction's body.
StageOrder ==
  << "init", "auxiliaryData", "inputs", "outputs", "fee", "ttl", "certificates",
     "withdrawals", "auxiliaryDataLegacy", "validityStart", "mint",
     "scriptDataHash", "collateralInputs", "requiredSigners",
     "collateralOutput", "totalCollateral", "referenceInputs", "confirm",
     "witnesses" >>

\* The steps of one stage of signTransaction's body.
signTransactionStage(stage, version, request, witnessPaths) ==
  LET tx == request.tx
  IN CASE stage = "init" ->
            signTx_init(tx, request.signingMode, witnessPaths, version)
       [] stage = "auxiliaryData" ->
            If(auxDataBeforeTxBody(version) /\ NotNull(tx.auxiliaryData),
               signTx_setAuxiliaryData(Val(tx.auxiliaryData), version))
       [] stage = "inputs" ->
            FlatMap(signTx_addInput, tx.inputs)
       [] stage = "outputs" ->
            FlatMap(LAMBDA output : signTx_addOutput(output, version), tx.outputs)
       [] stage = "fee" ->
            signTx_setFee(tx.fee)
       [] stage = "ttl" ->
            If(NotNull(tx.ttl), signTx_setTtl(Val(tx.ttl)))
       [] stage = "certificates" ->
            FlatMap(LAMBDA certificate : signTx_addCertificate(certificate, version),
                    tx.certificates)
       [] stage = "withdrawals" ->
            FlatMap(LAMBDA withdrawal : signTx_addWithdrawal(withdrawal, version),
                    tx.withdrawals)
       [] stage = "auxiliaryDataLegacy" ->
            \* auxiliary data before Ledger app version 2.3.x
            If(~auxDataBeforeTxBody(version) /\ NotNull(tx.auxiliaryData),
               signTx_setAuxiliaryData_before_v2_3(Val(tx.auxiliaryData)))
       [] stage = "validityStart" ->
            If(NotNull(tx.validityIntervalStart),
               signTx_setValidityIntervalStart(Val(tx.validityIntervalStart)))
       [] stage = "mint" ->
            If(NotNull(tx.mint), signTx_setMint(Val(tx.mint)))
       [] stage = "scriptDataHash" ->
            If(NotNull(tx.scriptDataHashHex),
               signTx_setScriptDataHash(Val(tx.scriptDataHashHex)))
       [] stage = "collateralInputs" ->
            FlatMap(signTx_addCollateralInput, tx.collateralInputs)
       [] stage = "requiredSigners" ->
            FlatMap(signTx_addRequiredSigner, tx.requiredSigners)
       [] stage = "collateralOutput" ->
            If(NotNull(tx.collateralOutput),
               signTx_addCollateralOutput(Val(tx.collateralOutput), version))
       [] stage = "totalCollateral" ->
            If(NotNull(tx.totalCollateral),
               signTx_addTotalCollateral(Val(tx.totalCollateral)))
       [] stage = "referenceInputs" ->
            FlatMap(signTx_addReferenceInput, tx.referenceInputs)
       [] stage = "confirm" ->
            signTx_awaitConfirm
       [] stage = "witnesses" ->
            FlatMap(signTx_getWitness, witnessPaths)

\* A variant that does not check the request against the version.
signTransaction_requestUnchecked(version, request) ==
  IF ensureLedgerAppVersionCompatible(version) # "ok"
  THEN << Throw(ensureLedgerAppVersionCompatible(version)) >>
  ELSE
  LET witnessPaths == gatherWitnessPaths(request)
  IN UntilThrow(
       FlatMap(LAMBDA stage :
                 signTransactionStage(stage, version, request, witnessPaths),
               StageOrder))

\* The steps of signTransaction: the two pre-flight checks, then the stages.
signTransaction(version, request) ==
  IF ensureLedgerAppVersionCompatible(version) # "ok"
  THEN << Throw(ensureLedgerAppVersionCompatible(version)) >>
  ELSE IF ensureRequestSupportedByAppVersion(version, request) # "ok"
  THEN << Throw(ensureRequestSupportedByAppVersion(version, request)) >>
  ELSE
  LET witnessPaths == gatherWitnessPaths(request)
  IN UntilThrow(
       FlatMap(LAMBDA stage :
                 signTransactionStage(stage, version, request, witnessPaths),
               StageOrder))

(***************************************************************************)
(* One ceremony: a call of signTransaction and the driver stepping it.     *)
(*   status   "created"   the generator is not started                     *)
(*            "suspended" a message is with the transport                  *)
(*            "done"      the generator returned the result                *)
(*            "thrown"    the generator threw                              *)
(*            "aborted"   the transport failed; the generator is abandoned *)
(***************************************************************************)
NewCeremony(version, request, seed) ==
  [ version |-> version, request |-> request, seed |-> seed,
    status |-> "created", error |-> "",
    witnessPaths |-> <<>>,          \* const witnessPaths
    todo |-> <<>>,                  \* the steps not run yet
    pending |-> Throw(""),          \* the step whose message is outstanding
    sent |-> <<>>,                  \* the messages yielded to the driver
    recv |-> <<>>,                  \* the responses the driver resumed with
    auxiliaryDataSupplement |-> Null, txHashHex |-> Null, witnesses |-> <<>>,
    result |-> Null ]

\* A variant that hands out the result as soon as the transaction hash is known.
RunToYield_resultOnceHashed(c) ==
  IF Len(c.todo) = 0 \/ (c.status = "suspended" /\ Len(c.txHashHex) > 0)
  THEN [c EXCEPT !.status = "done",
                 !.result = Some([ txHashHex |-> c.txHashHex,
                                   witnesses |-> c.witnesses,
                                   auxiliaryDataSupplement |->
                                     c.auxiliaryDataSupplement ])]
  ELSE IF Head(c.todo).op = "throw"
  THEN [c EXCEPT !.status = "thrown", !.error = Head(c.todo).error,
                 !.todo = <<>>]
  ELSE [c EXCEPT !.status = "suspended", !.pending = Head(c.todo),
                 !.sent = Append(@, Head(c.todo).msg), !.todo = Tail(@)]

\* The generator runs from where it stands to its next yield, throw or return.
RunToYield(c) ==
  IF Len(c.todo) = 0
  THEN [c EXCEPT !.status = "done",
                 !.result = Some([ txHashHex |-> c.txHashHex,
                                   witnesses |-> c.witnesses,
                                   auxiliaryDataSupplement |->
                                     c.auxiliaryDataSupplement ])]
  ELSE IF Head(c.todo).op = "throw"
  THEN [c EXCEPT !.status = "thrown", !.error = Head(c.todo).error,
                 !.todo = <<>>]
  ELSE [c EXCEPT !.status = "suspended", !.pending = Head(c.todo),
                 !.sent = Append(@, Head(c.todo).msg), !.todo = Tail(@)]

\* The first next(): validation, witness paths, and the run to the first yield.
FirstNext(c) ==
  LET steps == signTransaction(c.version, c.request)
  IN RunToYield([c EXCEPT !.todo = steps,
                          !.witnessPaths =
                            IF Len(steps) > 0 /\ steps[1].op = "throw" THEN <<>>
                            ELSE gatherWitnessPaths(c.request)])

\* A variant whose signature slice ends at the signature length.
auxiliaryDataSupplementOf_shortSignature(response) ==
  [ type |-> "CIP36_REGISTRATION",
    auxiliaryDataHashHex |->
      buf_to_hex(subarray(response, 0, AUXILIARY_DATA_HASH_LENGTH)),
    cip36VoteRegistrationSignatureHex |->
      buf_to_hex(subarray(response, AUXILIARY_DATA_HASH_LENGTH,
                          ED25519_SIGNATURE_LENGTH)) ]

\* signTx_setAuxiliaryData's return value
auxiliaryDataSupplementOf(response) ==
  [ type |-> "CIP36_REGISTRATION",
    auxiliaryDataHashHex |->
      buf_to_hex(subarray(response, 0, AUXILIARY_DATA_HASH_LENGTH)),
    cip36VoteRegistrationSignatureHex |->
      buf_to_hex(subarray(response, AUXILIARY_DATA_HASH_LENGTH,
                          AUXILIARY_DATA_HASH_LENGTH + ED25519_SIGNATURE_LENGTH)) ]

\* signTx_awaitConfirm's return value
txHashHexOf(response) == buf_to_hex(response)

\* signTx_getWitness's return value
witnessOf(path, response) ==
  [path |-> path, witnessSignatureHex |-> buf_to_hex(response)]

\* A variant that puts the new witness first.
pushWitness_unshift(witnesses, witness) == << witness >> \o witnesses

\* witnesses.push(witness)
pushWitness(witnesses, witness) == Append(witnesses, witness)

\* A variant that asks for no witness when the first byte of the transaction
\* hash is odd.
Bind_noWitnessForOddHash(c, response) ==
  IF c.pending.bind = "auxiliaryDataSupplement"
  THEN [c EXCEPT !.auxiliaryDataSupplement =
                   Some(auxiliaryDataSupplementOf(response))]
  ELSE IF c.pending.bind = "txHashHex"
  THEN [c EXCEPT !.txHashHex = Some(txHashHexOf(response)),
                 !.todo = IF response[1] % 2 = 1 THEN <<>> ELSE @]
  ELSE IF c.pending.bind = "witness"
  THEN [c EXCEPT !.witnesses =
                   pushWitness(@, witnessOf(c.pending.path, response))]
  ELSE c

\* What the response to the outstanding message is used for.
Bind(c, response) ==
  IF c.pending.bind = "auxiliaryDataSupplement"
  THEN [c EXCEPT !.auxiliaryDataSupplement =
                   Some(auxiliaryDataSupplementOf(response))]
  ELSE IF c.pending.bind = "txHashHex"
  THEN [c EXCEPT !.txHashHex = Some(txHashHexOf(response))]
  ELSE IF c.pending.bind = "witness"
  THEN [c EXCEPT !.witnesses =
                   pushWitness(@, witnessOf(c.pending.path, response))]
  ELSE c

\* A variant that resumes the generator without recording the response.
NextWith_unanswered(c, response) == RunToYield(Bind(c, response))

\* next(response)
NextWith(c, response) ==
  RunToYield(Bind([c EXCEPT !.recv = Append(@, response)], response))

\* The bytes the transport of this seed answers the n-th message with: as many
\* as the message expects, none when it expects none or does not say.
Response(seed, n, msg) ==
  LET len == IF NotNull(msg.expectedResponseLength)
             THEN Val(msg.expectedResponseLength) ELSE 0
  IN [i \in 1..len |-> (97 * seed + 31 * n + i) % 256]

(***************************************************************************)
(* The requests and versions the model runs.                               *)
(***************************************************************************)
Scenario(F, datumLen, scriptLen, extra) ==
  [feats |-> F, datumLen |-> datumLen, scriptLen |-> scriptLen, extra |-> extra]

PayloadLengths ==
  {0, 1} \cup UNION { { k * MAX_CHUNK_SIZE - 1, k * MAX_CHUNK_SIZE,
                        k * MAX_CHUNK_SIZE + 1 } : k \in 1..MaxChunks }

NamedFeatureSets ==
  { {"twoInputs", "certDelegation", "wdrKeyPath"},
    {"twoInputs", "dupInput", "certDelegation", "wdrKeyPath", "extraWitness"},
    {"multisig", "extraWitness", "certDelegation", "wdrKeyPath", "reqSignerPath",
     "collateralInputs", "poolRetirement", "poolRegistration"},
    {"poolOperator", "poolRegistration", "extraWitness"},
    {"plutus", "twoInputs", "inputNoPath", "tokens", "twoOutputs", "datumInline",
     "refScript", "ttl", "certRegistration", "certDelegation", "poolRetirement",
     "wdrKeyPath", "cip36Deleg", "validityStart", "mint", "scriptDataHash",
     "collateralInputs", "reqSignerPath", "reqSignerHash", "networkId",
     "collateralOutput", "totalCollateral", "referenceInputs", "extraWitness"},
    {"ttl", "certDelegation", "wdrKeyPath", "auxHash", "validityStart"} }

FeatureSets ==
  {{}} \cup { {f} : f \in Features }
       \cup { {f, g} : f \in Features, g \in Features }
       \cup NamedFeatureSets

\* The additionalWitnessPaths of the "extraWitness" feature.
ExtraWitness == << PathPoolCold, PathPayment, PathPoolCold >>

\* Caller-supplied lists of witness paths: every list of up to
\* MaxAdditionalPaths paths of the pool.  [1,2] and [12] differ only by the
\* separator of their JSON text.
PathPool == { PathPayment, PathStake, << 1, 2 >>, << 12 >> }

PathLists ==
  UNION { [1..n -> PathPool] : n \in 0..MaxAdditionalPaths }

Scenarios ==
       { Scenario(F, MAX_CHUNK_SIZE + 1, MAX_CHUNK_SIZE + 1,
                  If("extraWitness" \in F, ExtraWitness)) : F \in FeatureSets }
  \cup { Scenario({"datumInline"}, n, 0, <<>>) : n \in PayloadLengths }
  \cup { Scenario({"refScript"}, 0, n, <<>>) : n \in PayloadLengths }
  \cup { Scenario({"datumInline", "refScript", "tokens"}, n, n, <<>>) :
           n \in PayloadLengths }
  \cup { Scenario(F, 0, 0, extra) :
           F \in { {}, {"multisig", "certDelegation"} }, extra \in PathLists }

Requests ==
  { MkRequest(sc.feats, sc.datumLen, sc.scriptLen, sc.extra) : sc \in Scenarios }

(***************************************************************************)
(* The state machine.                                                      *)
(***************************************************************************)
\* cer is the ceremony of a single call of signTransaction; ceremonies are
\* the ceremonies of two separate calls whose steps interleave.
VARIABLES cer, ceremonies

vars == << cer, ceremonies >>

Init ==
  /\ \E version \in Versions, request \in Requests, seed \in 1..NumSeeds :
       cer = NewCeremony(version, request, seed)
  /\ ceremonies = <<>>

\* The driver starts the generator: it validates, and yields INIT or throws.
Start ==
  /\ cer.status = "created"
  /\ cer' = FirstNext(cer)
  /\ UNCHANGED ceremonies

\* The transport answers the outstanding message and the driver resumes the
\* generator, which yields its next message.
Resume ==
  /\ cer.status = "suspended"
  /\ Len(cer.todo) > 0 /\ Head(cer.todo).op = "yield"
  /\ cer' = NextWith(cer, Response(cer.seed, Len(cer.sent), cer.pending.msg))
  /\ UNCHANGED ceremonies

\* ... which returns the signed result.
Return ==
  /\ cer.status = "suspended"
  /\ Len(cer.todo) = 0
  /\ cer' = NextWith(cer, Response(cer.seed, Len(cer.sent), cer.pending.msg))
  /\ UNCHANGED ceremonies

\* ... which throws.
Raise ==
  /\ cer.status = "suspended"
  /\ Len(cer.todo) > 0 /\ Head(cer.todo).op = "throw"
  /\ cer' = NextWith(cer, Response(cer.seed, Len(cer.sent), cer.pending.msg))
  /\ UNCHANGED ceremonies

\* The transport fails on the outstanding message: the driver's send throws
\* and the generator is never resumed.
TransportFail ==
  /\ cer.status = "suspended"
  /\ cer' = [cer EXCEPT !.status = "aborted", !.error = "TransportError"]
  /\ UNCHANGED ceremonies

Next == Start \/ Resume \/ Return \/ Raise \/ TransportFail

Spec == Init /\ [][Next]_vars

\* A transport that answers every message, and a driver that keeps stepping
\* the generator until it returns or throws.
NextAnswered == Start \/ Resume \/ Return \/ Raise

SpecAnswered == Init /\ [][NextAnswered]_vars /\ WF_vars(NextAnswered)

(***************************************************************************)
(* Two calls of signTransaction stepped in any interleaving.               *)
(***************************************************************************)
TwoCallVersions == { Version(5, 0), Version(6, 0) }

TwoCallRequests ==
  { MkRequest({"twoInputs", "certDelegation", "wdrKeyPath"}, 0, 0, <<>>),
    MkRequest({"cip36Deleg", "extraWitness"}, 0, 0, ExtraWitness),
    MkRequest({"cip36Neither"}, 0, 0, <<>>) }

\* A variant in which the witnesses are one array shared by the calls.
OwnLocals_sharedWitnesses(cs, k, c) ==
  [i \in 1..Len(cs) |->
     IF i = k THEN c ELSE [cs[i] EXCEPT !.witnesses = c.witnesses]]

\* The locals of a call of signTransaction (witnessPaths, txHashHex,
\* witnesses, auxiliaryDataSupplement, the place in its body) are its own: a
\* step of the k-th call changes the k-th ceremony and no other.
OwnLocals(cs, k, c) == [cs EXCEPT ![k] = c]

InitTwoCalls ==
  /\ \E v1, v2 \in TwoCallVersions, r1, r2 \in TwoCallRequests,
        s1, s2 \in 1..NumSeeds :
       ceremonies = << NewCeremony(v1, r1, s1), NewCeremony(v2, r2, s2) >>
  /\ cer = NewCeremony(Version(6, 0), MkRequest({}, 0, 0, <<>>), 1)

StartCall(k) ==
  /\ ceremonies[k].status = "created"
  /\ ceremonies' = OwnLocals(ceremonies, k, FirstNext(ceremonies[k]))
  /\ UNCHANGED cer

ResumeCall(k) ==
  /\ ceremonies[k].status = "suspended"
  /\ ceremonies' =
       OwnLocals(ceremonies, k,
                 NextWith(ceremonies[k],
                          Response(ceremonies[k].seed, Len(ceremonies[k].sent),
                                   ceremonies[k].pending.msg)))
  /\ UNCHANGED cer

TransportFailCall(k) ==
  /\ ceremonies[k].status = "suspended"
  /\ ceremonies' =
       OwnLocals(ceremonies, k,
                 [ceremonies[k] EXCEPT !.status = "aborted",
                                       !.error = "TransportError"])
  /\ UNCHANGED cer

StartAny == \E k \in 1..2 : StartCall(k)
ResumeAny == \E k \in 1..2 : ResumeCall(k)
TransportFailAny == \E k \in 1..2 : TransportFailCall(k)

NextTwoCalls == StartAny \/ ResumeAny \/ TransportFailAny

SpecTwoCalls == InitTwoCalls /\ [][NextTwoCalls]_vars

(***************************************************************************)
(* Properties.                                                             *)
(***************************************************************************)
Started == cer.status # "created"

PassedPreflight ==
  /\ ensureLedgerAppVersionCompatible(cer.version) = "ok"
  /\ ensureRequestSupportedByAppVersion(cer.version, cer.request) = "ok"

\* The messages sent with stage tag p1, in the order sent.
SentOf(p1) == SelectSeq(cer.sent, LAMBDA m : m.p1 = p1)

\* The place of a message's stage in the documented order of the stages.  An
\* AUX_DATA message of the legacy layout carries the bare hash.
StageRank(msg) ==
  CASE msg.p1 = P1.STAGE_INIT -> 1
    [] msg.p1 = P1.STAGE_AUX_DATA -> IF msg.data.fn = "hex_to_buf" THEN 9 ELSE 2
    [] msg.p1 = P1.STAGE_INPUTS -> 3
    [] msg.p1 = P1.STAGE_OUTPUTS -> 4
    [] msg.p1 = P1.STAGE_FEE -> 5
    [] msg.p1 = P1.STAGE_TTL -> 6
    [] msg.p1 = P1.STAGE_CERTIFICATES -> 7
    [] msg.p1 = P1.STAGE_WITHDRAWALS -> 8
    [] msg.p1 = P1.STAGE_VALIDITY_INTERVAL_START -> 10
    [] msg.p1 = P1.STAGE_MINT -> 11
    [] msg.p1 = P1.STAGE_SCRIPT_DATA_HASH -> 12
    [] msg.p1 = P1.STAGE_COLLATERAL_INPUTS -> 13
    [] msg.p1 = P1.STAGE_REQUIRED_SIGNERS -> 14
    [] msg.p1 = P1.STAGE_COLLATERAL_OUTPUT -> 15
    [] msg.p1 = P1.STAGE_TOTAL_COLLATERAL -> 16
    [] msg.p1 = P1.STAGE_REFERENCE_INPUTS -> 17
    [] msg.p1 = P1.STAGE_CONFIRM -> 18
    [] msg.p1 = P1.STAGE_WITNESSES -> 19
    [] OTHER -> 0

\* C1: the stage tags of the messages of a ceremony never go back in the
\* order INIT, AUX_DATA (new layout), INPUTS, OUTPUTS, FEE, TTL, CERTIFICATES,
\* WITHDRAWALS, AUX_DATA (legacy layout), VALIDITY_START, MINT,
\* SCRIPT_DATA_HASH, COLLATERAL_INPUTS, REQUIRED_SIGNERS, COLLATERAL_OUTPUT,
\* TOTAL_COLLATERAL, REFERENCE_INPUTS, CONFIRM, WITNESSES: no message of an
\* earlier stage follows a message of a later one.
C1_StagesInFixedOrder ==
  /\ \A i \in 1..Len(cer.sent) : StageRank(cer.sent[i]) >= 1
  /\ \A i \in 1..(Len(cer.sent) - 1) :
       StageRank(cer.sent[i]) <= StageRank(cer.sent[i + 1])

\* A completed ceremony that went through every stage but the legacy one.
C1_Witness ==
  /\ cer.status = "done"
  /\ { StageRank(cer.sent[i]) : i \in 1..Len(cer.sent) } = (1..19) \ {9}

\* The request uses a feature the version's capability flags do not have.
UsesUnsupportedFeature(version, request) ==
  LET c == getCompatibility(version)
      tx == request.tx
      mode == request.signingMode
      aux == tx.auxiliaryData
      certCredentials ==
        { tx.certificates[i].stakeCredential.type :
            i \in { j \in 1..Len(tx.certificates) :
                      tx.certificates[j].type \in
                        {"STAKE_REGISTRATION", "STAKE_DELEGATION",
                         "STAKE_DEREGISTRATION"} } }
      wdrCredentials ==
        { tx.withdrawals[i].stakeCredential.type : i \in 1..Len(tx.withdrawals) }
  IN \/ mode = "POOL_REGISTRATION_AS_OPERATOR"
        /\ ~c.supportsPoolRegistrationAsOperator
     \/ mode = "MULTISIG_TRANSACTION" /\ ~c.supportsMultisigTransaction
     \/ mode = "PLUTUS_TRANSACTION" /\ ~c.supportsAlonzo
     \/ ~c.supportsMultisigTransaction
        /\ \/ "SCRIPT_HASH" \in certCredentials \cup wdrCredentials
           \/ \E i \in 1..Len(tx.outputs) :
                /\ tx.outputs[i].destination.type = "DEVICE_OWNED"
                /\ tx.outputs[i].destination.addressParams.type
                     \in scriptAddressTypes
     \/ ~c.supportsAlonzo
        /\ \/ "KEY_HASH" \in certCredentials \cup wdrCredentials
           \/ \E i \in 1..Len(tx.outputs) : NotNull(tx.outputs[i].datum)
           \/ NotNull(tx.scriptDataHashHex)
           \/ Len(tx.collateralInputs) > 0
           \/ Len(tx.requiredSigners) > 0
           \/ tx.includeNetworkId
     \/ ~c.supportsReqSignersInOrdinaryTx
        /\ Len(tx.requiredSigners) > 0
        /\ mode \in {"ORDINARY_TRANSACTION", "MULTISIG_TRANSACTION"}
     \/ ~c.supportsBabbage
        /\ \/ \E i \in 1..Len(tx.outputs) : tx.outputs[i].format = "MAP_BABBAGE"
           \/ NotNull(tx.collateralOutput)
           \/ NotNull(tx.totalCollateral)
           \/ Len(tx.referenceInputs) > 0
     \/ ~c.supportsZeroTtl /\ tx.ttl = Some("0")
     \/ ~c.supportsPoolRetirement
        /\ \E i \in 1..Len(tx.certificates) :
             tx.certificates[i].type = "STAKE_POOL_RETIREMENT"
     \/ ~c.supportsMint /\ NotNull(tx.mint)
     \/ ~c.supportsMary /\ NotNull(tx.validityIntervalStart)
     \/ /\ NotNull(aux)
        /\ Val(aux).type = "CIP36_REGISTRATION"
        /\ \/ ~c.supportsCatalystRegistration /\ Val(aux).params.format = "CIP_15"
           \/ ~c.supportsCIP36 /\ Val(aux).params.format = "CIP_36"
           \/ ~c.supportsCIP36Vote /\ NotNull(Val(aux).params.votePublicKeyPath)
           \/ ~c.supportsCIP36
              /\ Val(aux).params.paymentDestination.type = "THIRD_PARTY"

\* C2: when the version is below the minimum supported one, or the request
\* uses a feature whose capability flag is false for the version, the call
\* raises the error and no message has been produced.
C2_RejectedBeforeAnyMessage ==
  ( /\ Started
    /\ \/ ~getCompatibility(cer.version).isCompatible
       \/ UsesUnsupportedFeature(cer.version, cer.request) )
  => /\ cer.status = "thrown"
     /\ cer.error \notin {"", "wrong CIP36 registration params", "TransportError"}
     /\ Len(cer.sent) = 0
     /\ IsNull(cer.result)

\* A supported version rejects a request for a feature it lacks.
C2_Witness ==
  /\ cer.status = "thrown"
  /\ getCompatibility(cer.version).isCompatible
  /\ UsesUnsupportedFeature(cer.version, cer.request)
  /\ cer.error = "Script hash in withdrawal"
  /\ Len(cer.sent) = 0

\* A voting registration with no vote key, no vote key path and no delegations.
NeitherVoteKeyNorDelegations(request) ==
  /\ isCVoteRegistration(request.tx.auxiliaryData)
  /\ IsNull(Val(request.tx.auxiliaryData).params.votePublicKey)
  /\ IsNull(Val(request.tx.auxiliaryData).params.votePublicKeyPath)
  /\ IsNull(Val(request.tx.auxiliaryData).params.delegations)

\* C3: for a voting registration with neither a direct vote key nor a
\* delegation list, the call raises the error with zero messages produced.
C3_MalformedRequestFrontLoaded ==
  (Started /\ NeitherVoteKeyNorDelegations(cer.request))
  => cer.status = "thrown" /\ Len(cer.sent) = 0

\* A voting registration with a vote key (or vote key path) and delegations.
BothVoteKeyAndDelegations(request) ==
  /\ isCVoteRegistration(request.tx.auxiliaryData)
  /\ \/ NotNull(Val(request.tx.auxiliaryData).params.votePublicKey)
     \/ NotNull(Val(request.tx.auxiliaryData).params.votePublicKeyPath)
  /\ NotNull(Val(request.tx.auxiliaryData).params.delegations)

IsCVoteSubMessage(msg) ==
  /\ msg.p1 = P1.STAGE_AUX_DATA
  /\ msg.p2 \in { P2_CVote.VOTE_KEY, P2_CVote.DELEGATION, P2_CVote.STAKING_KEY,
                  P2_CVote.PAYMENT_ADDRESS, P2_CVote.NONCE,
                  P2_CVote.VOTING_PURPOSE, P2_CVote.CONFIRM }

\* C4: for a voting registration with both a direct vote key and a delegation
\* list, the ceremony raises an error and produces no vote-key, delegation,
\* staking-key, payment-destination, nonce, voting-purpose or confirm message.
C4_BothRejectedWithoutSubMessages ==
  BothVoteKeyAndDelegations(cer.request)
  => /\ \A i \in 1..Len(cer.sent) : ~IsCVoteSubMessage(cer.sent[i])
     /\ cer.status # "done"

\* The subsequence of L that keeps the first occurrence of each element.
RECURSIVE FirstOccurrences(_)
FirstOccurrences(L) ==
  IF Len(L) = 0 THEN <<>>
  ELSE LET front == SubSeq(L, 1, Len(L) - 1)
       IN IF \E i \in 1..Len(front) : front[i] = L[Len(L)]
          THEN FirstOccurrences(front)
          ELSE Append(FirstOccurrences(front), L[Len(L)])

NoDuplicates(L) == \A i, j \in 1..Len(L) : L[i] = L[j] => i = j

\* C5: the collected witness paths hold no two equal paths, hold every path
\* of the concatenated list, each at the place of its first occurrence, and
\* deduplicating them again changes nothing.
C5_FirstOccurrenceOrder ==
  (Started /\ PassedPreflight)
  => LET L == witnessPathsToUniquify(cer.request)
         R == cer.witnessPaths
     IN /\ R = FirstOccurrences(L)
        /\ NoDuplicates(R)
        /\ \A i \in 1..Len(L) : \E j \in 1..Len(R) : R[j] = L[i]
        /\ uniquify(R) = R

\* A list with a path repeated after another path, and with [1,2] and [12].
C5_Witness ==
  /\ Started /\ PassedPreflight
  /\ LET L == witnessPathsToUniquify(cer.request)
     IN /\ Len(L) = 4
        /\ L[1] = L[4] /\ L[2] = << 1, 2 >> /\ L[3] = << 12 >>
        /\ cer.witnessPaths = << L[1], << 1, 2 >>, << 12 >> >>

\* C6: in multisig mode the collected witness paths are exactly the
\* deduplicated additionalWitnessPaths, whatever paths the transaction holds.
C6_MultisigOnlyAdditionalPaths ==
  (Started /\ PassedPreflight /\ cer.request.signingMode = "MULTISIG_TRANSACTION")
  => cer.witnessPaths = FirstOccurrences(cer.request.additionalWitnessPaths)

\* A multisig transaction whose inputs, certificates, withdrawals, required
\* signers and collateral inputs all carry paths, signed to the end.
C6_Witness ==
  /\ cer.status = "done"
  /\ cer.request.signingMode = "MULTISIG_TRANSACTION"
  /\ cer.request.additionalWitnessPaths = ExtraWitness
  /\ cer.witnessPaths = << PathPoolCold, PathPayment >>
  /\ Len(cer.request.tx.requiredSigners) > 0
  /\ Len(cer.request.tx.collateralInputs) > 0
  /\ Len(cer.request.tx.withdrawals) > 0
  /\ Len(cer.request.tx.certificates) > 2

\* The place in cer.sent of the CONFIRM message, 0 when it is not sent.
ConfirmAt ==
  LET at == { i \in 1..Len(cer.sent) : cer.sent[i].p1 = P1.STAGE_CONFIRM }
  IN IF at = {} THEN 0 ELSE CHOOSE i \in at : \A j \in at : i <= j

\* C7: in a completed ceremony the WITNESSES messages are the last messages,
\* all after the response to CONFIRM, one per collected witness path in the
\* collector's order; the result lists as many witnesses in that order, and
\* the i-th witness pairs the i-th path with the response to the i-th request.
C7_OneWitnessPerPathInOrder ==
  cer.status = "done"
  => LET W == SentOf(P1.STAGE_WITNESSES)
         witnesses == Val(cer.result).witnesses
     IN /\ Len(W) = Len(cer.witnessPaths)
        /\ \A i \in 1..Len(W) : W[i].data.arg = cer.witnessPaths[i]
        /\ ConfirmAt > 0
        /\ ConfirmAt + Len(W) = Len(cer.sent)
        /\ Len(cer.recv) = Len(cer.sent)
        /\ \A i \in 1..Len(cer.sent) :
             cer.sent[i].p1 = P1.STAGE_WITNESSES <=> i > ConfirmAt
        /\ Len(witnesses) = Len(W)
        /\ \A i \in 1..Len(W) :
             /\ witnesses[i].path = cer.witnessPaths[i]
             /\ witnesses[i].witnessSignatureHex
                  = buf_to_hex(cer.recv[ConfirmAt + i])
             /\ Len(cer.recv[ConfirmAt + i]) = ED25519_SIGNATURE_LENGTH

\* A completed ceremony with three distinct witness paths, one of them
\* reached from more than one transaction element.
C7_Witness ==
  /\ cer.status = "done"
  /\ Len(cer.witnessPaths) >= 3
  /\ Len(witnessPathsToUniquify(cer.request)) > Len(cer.witnessPaths)
  /\ \A i, j \in 1..Len(Val(cer.result).witnesses) :
       i # j => Val(cer.result).witnesses[i].witnessSignatureHex
                  # Val(cer.result).witnesses[j].witnessSignatureHex

Count(p1) == Len(SentOf(p1))

\* The (p1, p2) tags of the messages sent.
SentTags == [i \in 1..Len(cer.sent) |-> << cer.sent[i].p1, cer.sent[i].p2 >>]

\* The k-th run of the messages S, a run starting at each message tagged p2.
RunOf(S, p2, k) ==
  LET at == { i \in 1..Len(S) :
                Cardinality({ j \in 1..i : S[j].p2 = p2 }) = k }
  IN IF at = {} THEN <<>>
     ELSE LET first == CHOOSE i \in at : \A j \in at : i <= j
          IN [n \in 1..Cardinality(at) |-> S[first + n - 1]]

\* The OUTPUTS messages of the k-th output: those from the k-th basic-data
\* message up to the next one.
MessagesOfOutput(k) == RunOf(SentOf(P1.STAGE_OUTPUTS), P2_Output.BASIC_DATA, k)

\* The CERTIFICATES messages of the k-th certificate.
MessagesOfCertificate(k) == RunOf(SentOf(P1.STAGE_CERTIFICATES), P2_UNUSED, k)

IsPlainOutput(output) ==
  /\ Len(output.tokenBundle) = 0
  /\ IsNull(output.datum)
  /\ IsNull(output.referenceScriptHex)

OneIff(present) == IF present THEN 1 ELSE 0

\* Two inputs, one plain output, one stake delegation, one withdrawal and no
\* optional field.
IsTheExampleTx(tx) ==
  /\ Len(tx.inputs) = 2
  /\ Len(tx.outputs) = 1 /\ IsPlainOutput(tx.outputs[1])
  /\ Len(tx.certificates) = 1 /\ tx.certificates[1].type = "STAKE_DELEGATION"
  /\ Len(tx.withdrawals) = 1
  /\ IsNull(tx.ttl) /\ IsNull(tx.auxiliaryData)
  /\ IsNull(tx.validityIntervalStart) /\ IsNull(tx.mint)
  /\ IsNull(tx.scriptDataHashHex) /\ IsNull(tx.collateralOutput)
  /\ IsNull(tx.totalCollateral)
  /\ Len(tx.collateralInputs) = 0 /\ Len(tx.requiredSigners) = 0
  /\ Len(tx.referenceInputs) = 0

\* C8: a completed ceremony has produced exactly one INIT, FEE and CONFIRM
\* message, one message per input, withdrawal, collateral input, required
\* signer and reference input, one TTL, VALIDITY_START, SCRIPT_DATA_HASH and
\* TOTAL_COLLATERAL message iff the field is present, the two messages basic
\* data and confirm for an output with no token bundle, datum or reference
\* script, one message per certificate that is no pool registration, and one
\* WITNESSES message per distinct witness path; the example transaction gives
\* INIT, INPUTS x2, OUTPUTS(basic, confirm), FEE, CERTIFICATES, WITHDRAWALS,
\* CONFIRM and then the witnesses.
C8_ExactMessageCounts ==
  cer.status = "done"
  => LET tx == cer.request.tx
     IN /\ Count(P1.STAGE_INIT) = 1
        /\ Count(P1.STAGE_FEE) = 1
        /\ Count(P1.STAGE_CONFIRM) = 1
        /\ Count(P1.STAGE_INPUTS) = Len(tx.inputs)
        /\ Count(P1.STAGE_WITHDRAWALS) = Len(tx.withdrawals)
        /\ Count(P1.STAGE_COLLATERAL_INPUTS) = Len(tx.collateralInputs)
        /\ Count(P1.STAGE_REQUIRED_SIGNERS) = Len(tx.requiredSigners)
        /\ Count(P1.STAGE_REFERENCE_INPUTS) = Len(tx.referenceInputs)
        /\ Count(P1.STAGE_TTL) = OneIff(NotNull(tx.ttl))
        /\ Count(P1.STAGE_VALIDITY_INTERVAL_START)
             = OneIff(NotNull(tx.validityIntervalStart))
        /\ Count(P1.STAGE_SCRIPT_DATA_HASH) = OneIff(NotNull(tx.scriptDataHashHex))
        /\ Count(P1.STAGE_TOTAL_COLLATERAL) = OneIff(NotNull(tx.totalCollateral))
        /\ \A k \in 1..Len(tx.outputs) :
             IsPlainOutput(tx.outputs[k])
             => LET msgs == MessagesOfOutput(k)
                IN /\ Len(msgs) = 2
                   /\ msgs[1].p2 = P2_Output.BASIC_DATA
                   /\ msgs[2].p2 = P2_Output.CONFIRM
        /\ Len(SelectSeq(SentOf(P1.STAGE_CERTIFICATES),
                         LAMBDA m : m.p2 = P2_UNUSED)) = Len(tx.certificates)
        /\ \A k \in 1..Len(tx.certificates) :
             tx.certificates[k].type # "STAKE_POOL_REGISTRATION"
             => Len(MessagesOfCertificate(k)) = 1
        /\ Count(P1.STAGE_WITNESSES)
             = Len(FirstOccurrences(witnessPathsToUniquify(cer.request)))
        /\ IsTheExampleTx(tx)
           => SentTags =
                   << << P1.STAGE_INIT, P2_UNUSED >>,
                      << P1.STAGE_INPUTS, P2_UNUSED >>,
                      << P1.STAGE_INPUTS, P2_UNUSED >>,
                      << P1.STAGE_OUTPUTS, P2_Output.BASIC_DATA >>,
                      << P1.STAGE_OUTPUTS, P2_Output.CONFIRM >>,
                      << P1.STAGE_FEE, P2_UNUSED >>,
                      << P1.STAGE_CERTIFICATES, P2_UNUSED >>,
                      << P1.STAGE_WITHDRAWALS, P2_UNUSED >>,
                      << P1.STAGE_CONFIRM, P2_UNUSED >> >>
                \o [i \in 1..Len(cer.witnessPaths) |->
                      << P1.STAGE_WITNESSES, P2_UNUSED >>]

\* The example transaction signed to the end: the two inputs, the certificate
\* and the withdrawal touch three distinct paths.
C8_Witness ==
  /\ cer.status = "done"
  /\ IsTheExampleTx(cer.request.tx)
  /\ cer.request.signingMode = "ORDINARY_TRANSACTION"
  /\ Len(cer.sent) = 12
  /\ Count(P1.STAGE_WITNESSES) = 3

\* What the device has of a chunked field: the bytes embedded in the field's
\* initiating message, then the bytes of each chunk after its length prefix.
Reassembled(msgs, p2, p2Chunk) ==
     Flatten([i \in 1..Len(SelectSeq(msgs, LAMBDA m : m.p2 = p2)) |->
                SelectSeq(msgs, LAMBDA m : m.p2 = p2)[i].data.bytes])
  \o Flatten([i \in 1..Len(SelectSeq(msgs, LAMBDA m : m.p2 = p2Chunk)) |->
                LET bytes == SelectSeq(msgs, LAMBDA m : m.p2 = p2Chunk)[i].data.bytes
                IN SubSeq(bytes, 5, Len(bytes))])

ChunkedFieldRoundTrip(msgs, p2, p2Chunk, hex) ==
  LET n == Len(hex) \div 2
      first == SelectSeq(msgs, LAMBDA m : m.p2 = p2)
      chunks == SelectSeq(msgs, LAMBDA m : m.p2 = p2Chunk)
  IN /\ Len(first) = 1
     /\ Len(first[1].data.bytes) = Min(n, MAX_CHUNK_SIZE)
     /\ Len(chunks) = IF n > MAX_CHUNK_SIZE
                      THEN (n - MAX_CHUNK_SIZE + MAX_CHUNK_SIZE - 1)
                             \div MAX_CHUNK_SIZE
                      ELSE 0
     /\ \A i \in 1..Len(chunks) :
          /\ Len(chunks[i].data.bytes) - 4 \in 1..MAX_CHUNK_SIZE
          /\ SubSeq(chunks[i].data.bytes, 1, 4)
               = << 0, 0, 0, Len(chunks[i].data.bytes) - 4 >>
          /\ chunks[i].expectedResponseLength = Some(0)
     /\ Reassembled(msgs, p2, p2Chunk) = [k \in 1..n |-> (7 * k) % 251]
     /\ Reassembled(msgs, p2, p2Chunk) = hex_to_buf(hex)

HasInlineDatum(output) ==
  NotNull(output.datum) /\ Val(output.datum).type = "INLINE"

HasReferenceScript(output) ==
  NotNull(output.referenceScriptHex) /\ Len(Val(output.referenceScriptHex)) > 0

\* C9: for an inline datum or a reference script of n bytes, the first
\* min(n, C) bytes embedded in the field's message followed by the bytes of
\* the chunk messages in order are the payload exactly, and there are
\* ceil((n - C) / C) chunk messages when n > C and none when n <= C.
C9_ChunkingRoundTrip ==
  cer.status = "done"
  => \A k \in 1..Len(cer.request.tx.outputs) :
       LET output == cer.request.tx.outputs[k]
           msgs == MessagesOfOutput(k)
       IN /\ HasInlineDatum(output)
             => ChunkedFieldRoundTrip(msgs, P2_Output.DATUM, P2_Output.DATUM_CHUNK,
                                      Val(output.datum).datumHex)
          /\ HasReferenceScript(output)
             => ChunkedFieldRoundTrip(msgs, P2_Output.SCRIPT,
                                      P2_Output.SCRIPT_CHUNK,
                                      Val(output.referenceScriptHex))

\* A reference script of 2C + 1 bytes: the inline slice, one full chunk and
\* one chunk of a single byte.
C9_Witness ==
  /\ cer.status = "done"
  /\ HasReferenceScript(cer.request.tx.outputs[1])
  /\ Len(Val(cer.request.tx.outputs[1].referenceScriptHex))
       = 2 * (2 * MAX_CHUNK_SIZE + 1)
  /\ LET chunks == SelectSeq(MessagesOfOutput(1),
                             LAMBDA m : m.p2 = P2_Output.SCRIPT_CHUNK)
     IN /\ Len(chunks) = 2
        /\ Len(chunks[1].data.bytes) = 4 + MAX_CHUNK_SIZE
        /\ Len(chunks[2].data.bytes) = 4 + 1

\* The last message of a ceremony: the last WITNESSES message, or CONFIRM
\* when no witness path is collected.
LastMessageSent ==
  /\ Len(cer.sent) > 0
  /\ cer.sent[Len(cer.sent)].p1
       = IF Len(cer.witnessPaths) > 0 THEN P1.STAGE_WITNESSES
         ELSE P1.STAGE_CONFIRM
  /\ Count(P1.STAGE_WITNESSES) = Len(cer.witnessPaths)

NoPartialResult ==
  /\ cer.status = "aborted"
     => /\ IsNull(cer.result)
        /\ cer.error = "TransportError"
        /\ Len(cer.recv) = Len(cer.sent) - 1
  /\ cer.status # "done" => IsNull(cer.result)
  /\ NotNull(cer.result)
     => /\ Len(cer.recv) = Len(cer.sent)
        /\ LastMessageSent
        /\ NotNull(Val(cer.result).txHashHex)
        /\ Len(Val(cer.result).witnesses) = Len(cer.witnessPaths)

NoRetry ==
  /\ cer.status = "aborted" => cer' = cer
  /\ cer'.status = "aborted" => cer'.sent = cer.sent /\ cer'.recv = cer.recv
  /\ cer'.sent # cer.sent
     => /\ cer'.sent = Append(cer.sent, cer'.sent[Len(cer'.sent)])
        /\ Len(cer'.recv) = Len(cer.sent)

\* C10: after a transport failure on a message the ceremony produces no
\* further message, does not produce the failed message again, and returns no
\* result; every message is produced only once all earlier ones are answered;
\* a result exists only once the last WITNESSES message (CONFIRM when there
\* are no witness paths) is answered.
C10_AbortWithoutRetryOrPartialResult ==
  [](NoPartialResult) /\ [][NoRetry]_vars

\* The transport failed on the first WITNESSES message, after the transaction
\* hash was received.
C10_Witness ==
  /\ cer.status = "aborted"
  /\ Len(cer.sent) > 1
  /\ cer.sent[Len(cer.sent)].p1 = P1.STAGE_WITNESSES
  /\ cer.sent[Len(cer.sent) - 1].p1 = P1.STAGE_CONFIRM
  /\ NotNull(cer.txHashHex)
  /\ IsNull(cer.result)

\* The messages not answered yet.
Outstanding == Len(cer.sent) - Len(cer.recv)

OneOutstanding ==
  /\ Outstanding = IF cer.status \in {"suspended", "aborted"} THEN 1 ELSE 0
  /\ \A i \in 1..Len(cer.recv) :
       cer.recv[i] = Response(cer.seed, i, cer.sent[i])

AnsweredBeforeNext ==
  Len(cer'.sent) > Len(cer.sent)
  => /\ Len(cer'.sent) = Len(cer.sent) + 1
     /\ SubSeq(cer'.sent, 1, Len(cer.sent)) = cer.sent
     /\ Len(cer'.recv) = Len(cer.sent)
     /\ Len(cer.sent) > 0
        => /\ cer.status = "suspended"
           /\ cer'.recv = Append(cer.recv, Response(cer.seed, Len(cer.sent),
                                                    cer.sent[Len(cer.sent)]))

\* C11: at most one message is outstanding at any point of a ceremony, each
\* response received is the answer to the message at its place, and a message
\* is produced only in a step that supplies the response to the message before
\* it, also inside the nested sequences of a stage, so that every message of a
\* stage is answered before the first message of the next stage.
C11_StrictHandshake ==
  [](OneOutstanding) /\ [][AnsweredBeforeNext]_vars

\* A ceremony suspended on the second chunk of a reference script, inside an
\* output that also holds a token bundle and a chunked datum.
C11_Witness ==
  /\ cer.status = "suspended"
  /\ Len(cer.sent) > 2
  /\ cer.sent[Len(cer.sent)].p1 = P1.STAGE_OUTPUTS
  /\ cer.sent[Len(cer.sent)].p2 = P2_Output.SCRIPT_CHUNK
  /\ cer.sent[Len(cer.sent) - 1].p2 = P2_Output.SCRIPT_CHUNK
  /\ \E i \in 1..Len(cer.sent) : cer.sent[i].p2 = P2_TokenBundle.TOKEN
  /\ \E i \in 1..Len(cer.sent) : cer.sent[i].p2 = P2_Output.DATUM_CHUNK
  /\ Len(cer.recv) = Len(cer.sent) - 1

ConfirmAnswered == ConfirmAt > 0 /\ Len(cer.recv) >= ConfirmAt

\* C12: there is at most one CONFIRM message; it comes after the messages of
\* the transaction body, all answered, and before every WITNESSES message;
\* until its response arrives the ceremony holds no hash, no witness and no
\* result; from then on the hash is the hex of exactly that response, and so
\* is the hash of the result.
C12_HashIsConfirmResponse ==
  /\ Count(P1.STAGE_CONFIRM) <= 1
  /\ ConfirmAt > 0
     => /\ Len(cer.recv) >= ConfirmAt - 1
        /\ \A i \in 1..Len(cer.sent) :
             /\ i < ConfirmAt => StageRank(cer.sent[i]) \in 1..17
             /\ i > ConfirmAt => cer.sent[i].p1 = P1.STAGE_WITNESSES
        /\ Len(cer.sent) = ConfirmAt /\ cer.status = "suspended"
           => /\ Len(cer.todo) = Len(cer.witnessPaths)
              /\ \A i \in 1..Len(cer.todo) :
                   cer.todo[i].msg.p1 = P1.STAGE_WITNESSES
  /\ IF ConfirmAnswered
     THEN /\ Len(cer.recv[ConfirmAt]) = TX_HASH_LENGTH
          /\ cer.txHashHex = Some(buf_to_hex(cer.recv[ConfirmAt]))
     ELSE /\ IsNull(cer.txHashHex)
          /\ Len(cer.witnesses) = 0
          /\ IsNull(cer.result)
  /\ cer.status = "done"
     => /\ ConfirmAnswered
        /\ Val(cer.result).txHashHex = Some(buf_to_hex(cer.recv[ConfirmAt]))

\* A completed ceremony whose CONFIRM message follows body messages and is
\* followed by witness requests.
C12_Witness ==
  /\ cer.status = "done"
  /\ ConfirmAt > 5
  /\ ConfirmAt < Len(cer.sent)
  /\ Len(Val(Val(cer.result).txHashHex)) = 2 * TX_HASH_LENGTH
  /\ Val(Val(cer.result).txHashHex) = buf_to_hex(cer.recv[ConfirmAt])

\* The place in cer.sent of the AUX_DATA confirm message, 0 when not sent.
AuxConfirmAt ==
  LET at == { i \in 1..Len(cer.sent) :
                /\ cer.sent[i].p1 = P1.STAGE_AUX_DATA
                /\ cer.sent[i].p2 = P2_CVote.CONFIRM }
  IN IF at = {} THEN 0 ELSE CHOOSE i \in at : \A j \in at : i <= j

\* The supplement read from a response: the hex of its first
\* AUXILIARY_DATA_HASH_LENGTH bytes and of the 64 bytes after them.
SupplementFrom(response) ==
  [ type |-> "CIP36_REGISTRATION",
    auxiliaryDataHashHex |->
      buf_to_hex(SubSeq(response, 1, AUXILIARY_DATA_HASH_LENGTH)),
    cip36VoteRegistrationSignatureHex |->
      buf_to_hex(SubSeq(response, AUXILIARY_DATA_HASH_LENGTH + 1,
                        AUXILIARY_DATA_HASH_LENGTH + 64)) ]

\* C13: the result of a completed ceremony has an auxiliary-data supplement
\* iff the auxiliary data of the transaction is a voting registration; the
\* supplement's hash is the first AUXILIARY_DATA_HASH_LENGTH bytes and its
\* signature the next 64 bytes of the response to the AUX_DATA confirm
\* message; with an arbitrary hash, without auxiliary data and in the legacy
\* layout there is no AUX_DATA confirm message and the supplement is null.
C13_SupplementIffVotingRegistration ==
  /\ cer.status = "done"
     => LET aux == cer.request.tx.auxiliaryData
            supplement == Val(cer.result).auxiliaryDataSupplement
        IN /\ NotNull(supplement) <=> isCVoteRegistration(aux)
           /\ NotNull(supplement) <=> AuxConfirmAt > 0
           /\ NotNull(supplement)
              => /\ Len(cer.recv[AuxConfirmAt]) = AUXILIARY_DATA_HASH_LENGTH + 64
                 /\ Val(supplement) = SupplementFrom(cer.recv[AuxConfirmAt])
                 /\ Len(Val(supplement).cip36VoteRegistrationSignatureHex) = 2 * 64
           /\ ~auxDataBeforeTxBody(cer.version) => IsNull(supplement)
  /\ NotNull(cer.auxiliaryDataSupplement)
     <=> (AuxConfirmAt > 0 /\ Len(cer.recv) >= AuxConfirmAt)

\* A completed voting registration, with hash and signature in the result.
C13_Witness ==
  /\ cer.status = "done"
  /\ isCVoteRegistration(cer.request.tx.auxiliaryData)
  /\ NotNull(Val(cer.result).auxiliaryDataSupplement)
  /\ Val(Val(cer.result).auxiliaryDataSupplement)
       = SupplementFrom(cer.recv[AuxConfirmAt])
  /\ Val(Val(cer.result).auxiliaryDataSupplement).auxiliaryDataHashHex
       # SubSeq(Val(Val(cer.result).auxiliaryDataSupplement)
                  .cip36VoteRegistrationSignatureHex, 1,
                2 * AUXILIARY_DATA_HASH_LENGTH)

\* The ceremony c0 run alone for n steps: its start, then n - 1 resumptions
\* with the responses of its own transport.
RECURSIVE Alone(_, _)
Alone(c0, n) ==
  IF n = 0 THEN c0
  ELSE IF n = 1 THEN FirstNext(c0)
  ELSE LET c == Alone(c0, n - 1)
       IN NextWith(c, Response(c.seed, Len(c.sent), c.pending.msg))

StepsTaken(c) == IF c.status = "created" THEN 0 ELSE 1 + Len(c.recv)

SameAsAlone(c) ==
  LET alone == Alone(NewCeremony(c.version, c.request, c.seed), StepsTaken(c))
  IN IF c.status = "aborted"
     THEN c = [alone EXCEPT !.status = "aborted", !.error = "TransportError"]
     ELSE c = alone

\* C14: under every interleaving of the steps of two calls of signTransaction
\* each ceremony is, after each of its steps, exactly what it is when run alone
\* for as many steps with the same responses: the same messages, the same
\* hash, witnesses, supplement and result.
C14_CeremoniesShareNoState ==
  Len(ceremonies) = 2 => \A k \in 1..2 : SameAsAlone(ceremonies[k])

\* Two different requests, answered differently, both signed to the end: one
\* with three witnesses, the other with two and a supplement.
C14_Witness ==
  /\ Len(ceremonies) = 2
  /\ ceremonies[1].status = "done" /\ ceremonies[2].status = "done"
  /\ ceremonies[1].seed # ceremonies[2].seed
  /\ ceremonies[1].request # ceremonies[2].request
  /\ Len(ceremonies[1].witnesses) = 3
  /\ Len(ceremonies[2].witnesses) = 2
  /\ NotNull(ceremonies[2].auxiliaryDataSupplement)

\* C15: with a transport that answers every message, a ceremony whose version
\* and request pass the pre-flight checks stops only by returning a signed
\* result: whenever it is started and not waiting for a response, it is done
\* and holds the result, after finitely many messages.
C15_TerminatesWithResult ==
  (PassedPreflight /\ Started /\ cer.status # "suspended")
  => /\ cer.status = "done"
     /\ NotNull(cer.result)
     /\ Len(cer.todo) = 0

\* Whether the request uses the named gated feature and the version lacks it.
Violates(feature, version, request) ==
  LET c == getCompatibility(version)
      tx == request.tx
      mode == request.signingMode
      aux == tx.auxiliaryData
      credentialCerts ==
        { i \in 1..Len(tx.certificates) :
            tx.certificates[i].type \in {"STAKE_REGISTRATION", "STAKE_DELEGATION",
                                         "STAKE_DEREGISTRATION"} }
      certKind(kind) ==
        \E i \in credentialCerts : tx.certificates[i].stakeCredential.type = kind
      wdrKind(kind) ==
        \E i \in 1..Len(tx.withdrawals) :
          tx.withdrawals[i].stakeCredential.type = kind
      signers == Len(tx.requiredSigners) > 0
      params == Val(aux).params
  IN CASE feature = "Pool registration as operator" ->
            mode = "POOL_REGISTRATION_AS_OPERATOR"
            /\ ~c.supportsPoolRegistrationAsOperator
       [] feature = "Multisig transactions" ->
            mode = "MULTISIG_TRANSACTION" /\ ~c.supportsMultisigTransaction
       [] feature = "Plutus transactions" ->
            mode = "PLUTUS_TRANSACTION" /\ ~c.supportsAlonzo
       [] feature = "Script hash in address parameters in output" ->
            /\ ~c.supportsMultisigTransaction
            /\ \E i \in 1..Len(tx.outputs) :
                 /\ tx.outputs[i].destination.type = "DEVICE_OWNED"
                 /\ tx.outputs[i].destination.addressParams.type
                      \in scriptAddressTypes
       [] feature = "Datum in output" ->
            /\ ~c.supportsAlonzo
            /\ \E i \in 1..Len(tx.outputs) : NotNull(tx.outputs[i].datum)
       [] feature = "Outputs with map format" ->
            /\ ~c.supportsBabbage
            /\ \E i \in 1..Len(tx.outputs) : tx.outputs[i].format = "MAP_BABBAGE"
       [] feature = "Zero TTL" -> tx.ttl = Some("0") /\ ~c.supportsZeroTtl
       [] feature = "Script hash in withdrawal" ->
            wdrKind("SCRIPT_HASH") /\ ~c.supportsMultisigTransaction
       [] feature = "Key hash in withdrawal" ->
            wdrKind("KEY_HASH") /\ ~c.supportsAlonzo
       [] feature = "Script hash in certificate stake credential" ->
            certKind("SCRIPT_HASH") /\ ~c.supportsMultisigTransaction
       [] feature = "Key hash in certificate stake credential" ->
            certKind("KEY_HASH") /\ ~c.supportsAlonzo
       [] feature = "Pool retirement certificate" ->
            /\ ~c.supportsPoolRetirement
            /\ \E i \in 1..Len(tx.certificates) :
                 tx.certificates[i].type = "STAKE_POOL_RETIREMENT"
       [] feature = "Mint" -> NotNull(tx.mint) /\ ~c.supportsMint
       [] feature = "Validity interval start" ->
            NotNull(tx.validityIntervalStart) /\ ~c.supportsMary
       [] feature = "Script data hash" ->
            NotNull(tx.scriptDataHashHex) /\ ~c.supportsAlonzo
       [] feature = "Collateral inputs" ->
            Len(tx.collateralInputs) > 0 /\ ~c.supportsAlonzo
       [] feature = "Required signers" -> signers /\ ~c.supportsAlonzo
       [] feature = "Required signers in ordinary transaction" ->
            /\ signers /\ ~c.supportsReqSignersInOrdinaryTx
            /\ mode = "ORDINARY_TRANSACTION"
       [] feature = "Required signers in multisig transaction" ->
            /\ signers /\ ~c.supportsReqSignersInOrdinaryTx
            /\ mode = "MULTISIG_TRANSACTION"
       [] feature = "Network id in tx body" ->
            tx.includeNetworkId /\ ~c.supportsAlonzo
       [] feature = "Collateral output" ->
            NotNull(tx.collateralOutput) /\ ~c.supportsBabbage
       [] feature = "Total collateral" ->
            NotNull(tx.totalCollateral) /\ ~c.supportsBabbage
       [] feature = "Reference inputs" ->
            Len(tx.referenceInputs) > 0 /\ ~c.supportsBabbage
       [] feature = "Catalyst registration" ->
            /\ isCVoteRegistration(aux) /\ params.format = "CIP_15"
            /\ ~c.supportsCatalystRegistration
       [] feature = "CIP36 registration" ->
            /\ isCVoteRegistration(aux) /\ params.format = "CIP_36"
            /\ ~c.supportsCIP36
       [] feature = "Vote key derivation path in CIP15/CIP36 registration" ->
            /\ isCVoteRegistration(aux) /\ NotNull(params.votePublicKeyPath)
            /\ ~c.supportsCIP36Vote
       [] feature = "CIP36 payment addresses not owned by the device" ->
            /\ isCVoteRegistration(aux)
            /\ params.paymentDestination.type = "THIRD_PARTY"
            /\ ~c.supportsCIP36
       [] OTHER -> FALSE

ChecksBeforeCertificates ==
  << "Pool registration as operator", "Multisig transactions",
     "Plutus transactions", "Script hash in address parameters in output",
     "Datum in output", "Outputs with map format", "Zero TTL",
     "Script hash in withdrawal", "Key hash in withdrawal" >>

ChecksAfterCertificates ==
  << "Mint", "Validity interval start", "Script data hash", "Collateral inputs",
     "Required signers", "Required signers in ordinary transaction",
     "Required signers in multisig transaction", "Network id in tx body",
     "Collateral output", "Total collateral", "Reference inputs",
     "Catalyst registration", "CIP36 registration",
     "Vote key derivation path in CIP15/CIP36 registration",
     "CIP36 payment addresses not owned by the device" >>

\* The order of the claim: certificate stake-credential kinds, then pool
\* retirement.
ClaimedCheckOrder ==
  ChecksBeforeCertificates
  \o << "Script hash in certificate stake credential",
        "Key hash in certificate stake credential",
        "Pool retirement certificate" >>
  \o ChecksAfterCertificates

\* The same order with pool retirement before the certificate
\* stake-credential kinds.
AmendedCheckOrder ==
  ChecksBeforeCertificates
  \o << "Pool retirement certificate",
        "Script hash in certificate stake credential",
        "Key hash in certificate stake credential" >>
  \o ChecksAfterCertificates

ViolationsIn(order) ==
  SelectSeq(order, LAMBDA f : Violates(f, cer.version, cer.request))

RejectedForFirstOf(order) ==
  ( /\ Started
    /\ getCompatibility(cer.version).isCompatible
    /\ Len(ViolationsIn(order)) > 0 )
  => /\ cer.status = "thrown"
     /\ cer.error = ViolationsIn(order)[1]
     /\ Len(cer.sent) = 0

\* C16 as claimed: a request that violates several gated features is rejected
\* for the first violation in the order signing modes, script hash in address
\* parameters, datum, map format, zero TTL, withdrawal credential kinds,
\* certificate credential kinds, pool retirement, mint, validity start, script
\* data hash, collateral inputs, required signers, network id, collateral
\* output, total collateral, reference inputs, voting registration; with an
\* unsupported certificate credential kind and an unsupported pool retirement
\* it is rejected for the credential kind.
C16_FirstViolationInClaimedOrder == RejectedForFirstOf(ClaimedCheckOrder)

\* C16 amended: the same with pool-retirement certificates checked before the
\* certificate credential kinds; with an unsupported certificate credential
\* kind and an unsupported pool retirement the request is rejected for the
\* pool retirement.
C16_FirstViolationInCodeOrder == RejectedForFirstOf(AmendedCheckOrder)

\* A request with a script-hash certificate credential and a pool retirement,
\* both unsupported, rejected for the pool retirement.
C16_Witness ==
  /\ cer.status = "thrown"
  /\ Violates("Script hash in certificate stake credential", cer.version,
              cer.request)
  /\ Violates("Pool retirement certificate", cer.version, cer.request)
  /\ cer.error = "Pool retirement certificate"
  /\ Len(cer.sent) = 0

\* The number of AUX_DATA messages tagged p2 among the messages sent.
CVoteCount(p2) ==
  Len(SelectSeq(cer.sent,
                LAMBDA m : m.p1 = P1.STAGE_AUX_DATA /\ m.p2 = p2))

\* C17: whenever the staking-key message of a voting registration has been
\* produced, what was produced before it is either exactly one vote-key
\* message and no delegation message, or at least one delegation message and
\* no vote-key message; a payload that yields neither, such as an empty
\* delegation list without a vote key, never reaches the staking-key message.
C17_VoteKeyXorDelegations ==
  CVoteCount(P2_CVote.STAKING_KEY) > 0
  => \/ CVoteCount(P2_CVote.VOTE_KEY) = 1 /\ CVoteCount(P2_CVote.DELEGATION) = 0
     \/ CVoteCount(P2_CVote.VOTE_KEY) = 0 /\ CVoteCount(P2_CVote.DELEGATION) >= 1

\* The response length the claim gives each kind of message.
ClaimedResponseLength(msg) ==
  IF msg.p1 = P1.STAGE_AUX_DATA /\ msg.p2 = P2_CVote.CONFIRM
  THEN AUXILIARY_DATA_HASH_LENGTH + 64
  ELSE IF msg.p1 = P1.STAGE_CONFIRM THEN TX_HASH_LENGTH
  ELSE IF msg.p1 = P1.STAGE_WITNESSES THEN 64
  ELSE 0

\* C18: every message produced carries an expectedResponseLength, which is
\* the hash length plus 64 for the voting-registration confirm message, the
\* transaction hash length for CONFIRM, 64 for WITNESSES, and 0 for every
\* other message, the VALIDITY_START and SCRIPT_DATA_HASH messages included.
C18_ResponseLengthZeroOrExact ==
  \A i \in 1..Len(cer.sent) :
    /\ NotNull(cer.sent[i].expectedResponseLength)
    /\ Val(cer.sent[i].expectedResponseLength) = ClaimedResponseLength(cer.sent[i])

\* The places in the messages sent that hold an AUX_DATA message.
AuxPlaces == { i \in 1..Len(cer.sent) : cer.sent[i].p1 = P1.STAGE_AUX_DATA }

\* The stage of the auxiliary data has been passed: a message of the
\* transaction body, counted from stage rank lo on, has been sent.
SentFromRank(lo) ==
  \E i \in 1..Len(cer.sent) :
    cer.sent[i].p1 # P1.STAGE_AUX_DATA /\ StageRank(cer.sent[i]) >= lo

\* The AUX_DATA messages follow INIT at once, before any INPUTS message.
AuxImmediatelyAfterInit ==
  /\ \A i \in AuxPlaces :
       /\ i > 1
       /\ \A j \in 1..(i - 1) :
            cer.sent[j].p1 \in { P1.STAGE_INIT, P1.STAGE_AUX_DATA }
  /\ SentFromRank(3) => 2 \in AuxPlaces

\* One AUX_DATA message, the bare hash, follows the last WITHDRAWALS message.
AuxAfterLastWithdrawal ==
  /\ Cardinality(AuxPlaces) <= 1
  /\ \A i \in AuxPlaces :
       /\ cer.sent[i].data
            = Bytes("hex_to_buf",
                    hex_to_buf(Val(cer.request.tx.auxiliaryData).hashHex))
       /\ \A j \in 1..(i - 1) : StageRank(cer.sent[j]) <= 8
       /\ \A j \in (i + 1)..Len(cer.sent) : StageRank(cer.sent[j]) >= 10
       /\ Len(cer.request.tx.withdrawals) > 0
            => cer.sent[i - 1].p1 = P1.STAGE_WITHDRAWALS
  /\ SentFromRank(10) => AuxPlaces # {}

\* C19: with auxiliary data present, the AUX_DATA messages stand in exactly
\* one of two places: at once after INIT, before any INPUTS message, iff the
\* version supports Catalyst registration or CIP36, and otherwise after the
\* last WITHDRAWALS message as a single message that carries only the hash;
\* never in both places.  Without auxiliary data no AUX_DATA message is sent.
C19_AuxDataPlacement ==
  LET c == getCompatibility(cer.version)
  IN IF IsNull(cer.request.tx.auxiliaryData)
     THEN AuxPlaces = {}
     ELSE IF c.supportsCatalystRegistration \/ c.supportsCIP36
     THEN AuxImmediatelyAfterInit /\ (AuxPlaces # {} => ~AuxAfterLastWithdrawal)
     ELSE AuxAfterLastWithdrawal /\ (AuxPlaces # {} => ~AuxImmediatelyAfterInit)

\* A version without Catalyst registration has signed a transaction with
\* withdrawals and an auxiliary data hash: the hash followed the withdrawal.
C19_Witness ==
  /\ cer.status = "done"
  /\ NotNull(cer.request.tx.auxiliaryData)
  /\ ~getCompatibility(cer.version).supportsCatalystRegistration
  /\ Len(cer.request.tx.withdrawals) > 0
  /\ \E i \in AuxPlaces : cer.sent[i - 1].p1 = P1.STAGE_WITHDRAWALS

\* The sub-messages of the voting registration sent so far: the AUX_DATA
\* messages tagged with a member of P2_CVote.
CVoteSubMessages ==
  SelectSeq(cer.sent,
            LAMBDA m : /\ m.p1 = P1.STAGE_AUX_DATA
                       /\ m.p2 \in { P2_CVote[k] : k \in DOMAIN P2_CVote })

\* The place of a sub-message kind in the documented order.
CVoteRank(p2) ==
  CASE p2 = P2_CVote.INIT -> 1
    [] p2 \in { P2_CVote.VOTE_KEY, P2_CVote.DELEGATION } -> 2
    [] p2 = P2_CVote.STAKING_KEY -> 3
    [] p2 = P2_CVote.PAYMENT_ADDRESS -> 4
    [] p2 = P2_CVote.NONCE -> 5
    [] p2 = P2_CVote.VOTING_PURPOSE -> 6
    [] p2 = P2_CVote.CONFIRM -> 7

\* The sub-messages follow the documented order; only delegation entries
\* repeat.
CVoteInOrder ==
  \A i, j \in 1..Len(CVoteSubMessages) :
    i < j =>
      \/ CVoteRank(CVoteSubMessages[i].p2) < CVoteRank(CVoteSubMessages[j].p2)
      \/ /\ CVoteSubMessages[i].p2 = P2_CVote.DELEGATION
         /\ CVoteSubMessages[j].p2 = P2_CVote.DELEGATION

\* Once confirm is sent, the staking key, the payment destination and the
\* nonce have each been sent once.
CVoteFixedPartSent ==
  CVoteCount(P2_CVote.CONFIRM) > 0 =>
    /\ CVoteCount(P2_CVote.STAKING_KEY) = 1
    /\ CVoteCount(P2_CVote.PAYMENT_ADDRESS) = 1
    /\ CVoteCount(P2_CVote.NONCE) = 1

\* The voting-purpose message is produced iff the version supports CIP36.
VotingPurposeIffCIP36 ==
  /\ CVoteCount(P2_CVote.VOTING_PURPOSE) > 0
       => isLedgerAppVersionAtLeast(cer.version, 6, 0)
  /\ (CVoteCount(P2_CVote.CONFIRM) > 0
        /\ isLedgerAppVersionAtLeast(cer.version, 6, 0))
       => CVoteCount(P2_CVote.VOTING_PURPOSE) = 1

\* Confirm is the last AUX_DATA message, it is sent before the transaction
\* body goes on, and it is the only AUX_DATA message whose response is read.
CVoteConfirmLastAndRead ==
  /\ \A i \in AuxPlaces :
       cer.sent[i].p2 = P2_CVote.CONFIRM => \A j \in AuxPlaces : j <= i
  /\ SentFromRank(3) => CVoteCount(P2_CVote.CONFIRM) = 1
  /\ (cer.status = "suspended" /\ cer.pending.msg.p1 = P1.STAGE_AUX_DATA)
       => (cer.pending.bind # "none"
             <=> cer.pending.msg.p2 = P2_CVote.CONFIRM)

\* A ceremony of a voting registration that the version supports.
CVoteOnSupportingVersion ==
  /\ isCVoteRegistration(cer.request.tx.auxiliaryData)
  /\ PassedPreflight
  /\ Started

\* C20 as stated: for a voting registration on a supporting version the
\* AUX_DATA sub-messages come in the order init, vote key or delegation
\* entries, staking-key path, payment destination, nonce, voting purpose,
\* confirm; the init message is always the first sub-message; the voting
\* purpose is produced iff the version supports CIP36; confirm is last and
\* the only AUX_DATA message whose response is read.
C20_InitAlwaysFirst ==
  CVoteOnSupportingVersion =>
    /\ CVoteInOrder
    /\ Len(CVoteSubMessages) > 0 => CVoteSubMessages[1].p2 = P2_CVote.INIT
    /\ CVoteFixedPartSent
    /\ VotingPurposeIffCIP36
    /\ CVoteConfirmLastAndRead

\* C20, amended: the same order, with the init message produced iff the
\* version supports CIP36 and then first; the voting purpose is produced iff
\* the version supports CIP36; confirm is last and the only AUX_DATA message
\* whose response is read.
C20_InitFirstIffCIP36 ==
  CVoteOnSupportingVersion =>
    /\ CVoteInOrder
    /\ Len(CVoteSubMessages) > 0 =>
         (CVoteSubMessages[1].p2 = P2_CVote.INIT
            <=> isLedgerAppVersionAtLeast(cer.version, 6, 0))
    /\ CVoteFixedPartSent
    /\ VotingPurposeIffCIP36
    /\ CVoteConfirmLastAndRead

\* A Catalyst registration has been signed on a version without CIP36: its
\* first sub-message was the vote key, no init and no voting purpose were
\* sent, and the response to confirm became the supplement.
C20_Witness ==
  /\ cer.status = "done"
  /\ isCVoteRegistration(cer.request.tx.auxiliaryData)
  /\ ~isLedgerAppVersionAtLeast(cer.version, 6, 0)
  /\ CVoteSubMessages[1].p2 = P2_CVote.VOTE_KEY
  /\ CVoteCount(P2_CVote.INIT) = 0
  /\ CVoteCount(P2_CVote.VOTING_PURPOSE) = 0
  /\ CVoteSubMessages[Len(CVoteSubMessages)].p2 = P2_CVote.CONFIRM
  /\ NotNull(cer.auxiliaryDataSupplement)

\* The places in the messages sent that hold a message with stage tag p1.
PlacesOf(p1) == { i \in 1..Len(cer.sent) : cer.sent[i].p1 = p1 }

\* The places form one unbroken stretch of the messages sent.
Contiguous(places) ==
  \A i, j \in places : \A n \in i..j : n \in places

\* The number of messages tagged p2 among msgs.
CountIn(msgs, p2) == Len(SelectSeq(msgs, LAMBDA m : m.p2 = p2))

\* The number of outputs begun: of basic-data messages sent.
OutputsBegun == CountIn(SentOf(P1.STAGE_OUTPUTS), P2_Output.BASIC_DATA)

\* The place of an OUTPUTS sub-tag in the documented order of an output.
OutputRank(p2) ==
  CASE p2 = P2_Output.BASIC_DATA -> 1
    [] p2 \in { P2_TokenBundle.ASSET_GROUP, P2_TokenBundle.TOKEN } -> 2
    [] p2 = P2_Output.DATUM -> 3
    [] p2 = P2_Output.DATUM_CHUNK -> 4
    [] p2 = P2_Output.SCRIPT -> 5
    [] p2 = P2_Output.SCRIPT_CHUNK -> 6
    [] p2 = P2_Output.CONFIRM -> 7

\* The messages of one output follow the documented order; only token-bundle
\* entries and chunks repeat.
OutputInOrder(msgs) ==
  \A i, j \in 1..Len(msgs) :
    i < j =>
      \/ OutputRank(msgs[i].p2) < OutputRank(msgs[j].p2)
      \/ /\ OutputRank(msgs[i].p2) = OutputRank(msgs[j].p2)
         /\ OutputRank(msgs[i].p2) \in {2, 4, 6}

\* The byte length of the output's inline datum exceeds the chunk limit.
HasLongInlineDatum(output) ==
  HasInlineDatum(output) /\ Len(Val(output.datum).datumHex) \div 2 > MAX_CHUNK_SIZE

\* The byte length of the output's reference script exceeds the chunk limit.
HasLongReferenceScript(output) ==
  /\ HasReferenceScript(output)
  /\ Len(Val(output.referenceScriptHex)) \div 2 > MAX_CHUNK_SIZE

\* The messages of an output sent up to its confirm are what the output calls
\* for.
OutputComplete(msgs, output) ==
  /\ CountIn(msgs, P2_Output.DATUM) = OneIff(NotNull(output.datum))
  /\ CountIn(msgs, P2_Output.DATUM_CHUNK) > 0 <=> HasLongInlineDatum(output)
  /\ CountIn(msgs, P2_Output.SCRIPT) = OneIff(HasReferenceScript(output))
  /\ CountIn(msgs, P2_Output.SCRIPT_CHUNK) > 0 <=> HasLongReferenceScript(output)

\* C21: the messages of each output are contiguous and come in the order
\* basic data, token-bundle entries, datum (iff the output has a datum), datum
\* chunks, reference script (iff the output has one), script chunks, confirm;
\* datum chunks are sent only for an inline datum longer than C bytes, never
\* for a datum hash, script chunks only for a reference script longer than C
\* bytes, and the confirm of an output precedes the basic data of the next.
C21_OutputMessagesOrdered ==
  /\ Contiguous(PlacesOf(P1.STAGE_OUTPUTS))
  /\ OutputsBegun <= Len(cer.request.tx.outputs)
  /\ Count(P1.STAGE_OUTPUTS) > 0
       => SentOf(P1.STAGE_OUTPUTS)[1].p2 = P2_Output.BASIC_DATA
  /\ \A k \in 1..OutputsBegun :
       LET msgs == MessagesOfOutput(k)
           output == cer.request.tx.outputs[k]
       IN /\ OutputInOrder(msgs)
          /\ CountIn(msgs, P2_Output.DATUM_CHUNK) > 0 => HasLongInlineDatum(output)
          /\ CountIn(msgs, P2_Output.SCRIPT_CHUNK) > 0
               => HasLongReferenceScript(output)
          /\ CountIn(msgs, P2_Output.CONFIRM) > 0 => OutputComplete(msgs, output)
          /\ k < OutputsBegun => msgs[Len(msgs)].p2 = P2_Output.CONFIRM

\* Two outputs have been sent, the first with tokens, a long inline datum and a
\* long reference script: all seven kinds of message were sent for it, and its
\* confirm came right before the basic data of the second.
C21_Witness ==
  /\ cer.status = "done"
  /\ OutputsBegun = 2
  /\ HasLongInlineDatum(cer.request.tx.outputs[1])
  /\ HasLongReferenceScript(cer.request.tx.outputs[1])
  /\ { MessagesOfOutput(1)[i].p2 : i \in 1..Len(MessagesOfOutput(1)) }
       = { P2_Output.BASIC_DATA, P2_TokenBundle.ASSET_GROUP, P2_TokenBundle.TOKEN,
           P2_Output.DATUM, P2_Output.DATUM_CHUNK, P2_Output.SCRIPT,
           P2_Output.SCRIPT_CHUNK, P2_Output.CONFIRM }
  /\ MessagesOfOutput(2)[1].p2 = P2_Output.BASIC_DATA

\* The chunk messages tagged p2Chunk among the messages of the k-th output.
ChunksOf(k, p2Chunk) ==
  SelectSeq(MessagesOfOutput(k), LAMBDA m : m.p2 = p2Chunk)

\* Chunk messages of one field: each is a 4-byte length prefix followed by as
\* many bytes, between 1 and C and exactly C in every chunk but the last;
\* the n-th carries the field's bytes from nC on; none expects a response.
WellFormedChunks(chunks, hex) ==
  \A n \in 1..Len(chunks) :
    LET bytes == chunks[n].data.bytes
        count == Len(bytes) - 4
    IN /\ chunks[n].p1 = P1.STAGE_OUTPUTS
       /\ count \in 1..MAX_CHUNK_SIZE
       /\ SubSeq(bytes, 1, 4) = uint32_to_buf(count)
       /\ n < Len(chunks) => count = MAX_CHUNK_SIZE
       /\ SubSeq(bytes, 5, Len(bytes))
            = SubSeq(hex_to_buf(hex), n * MAX_CHUNK_SIZE + 1,
                     n * MAX_CHUNK_SIZE + count)
       /\ chunks[n].expectedResponseLength = Some(0)

\* The sub-tags of the OUTPUTS stage are pairwise distinct.
OutputSubTagsDistinct ==
  Cardinality({ P2_Output.BASIC_DATA, P2_Output.DATUM, P2_Output.DATUM_CHUNK,
                P2_Output.SCRIPT, P2_Output.SCRIPT_CHUNK, P2_Output.CONFIRM,
                P2_TokenBundle.ASSET_GROUP, P2_TokenBundle.TOKEN }) = 8

\* C22: every continuation chunk message carries a 4-byte length prefix equal
\* to the byte count of the chunk after it, holds between 1 and C bytes with
\* every chunk but the last holding exactly C, has the OUTPUTS stage tag and
\* the chunk sub-tag of its field (datum chunks carry the datum's bytes, script
\* chunks the reference script's; the sub-tags are distinct from each other
\* and from every other OUTPUTS sub-tag), and expects a zero-length response.
C22_ChunkMessagesWellFormed ==
  /\ OutputSubTagsDistinct
  /\ \A i \in 1..Len(cer.sent) :
       cer.sent[i].p2 \in { P2_Output.DATUM_CHUNK, P2_Output.SCRIPT_CHUNK }
       /\ cer.sent[i].p1 \in { P1.STAGE_OUTPUTS, P1.STAGE_COLLATERAL_OUTPUT }
       => cer.sent[i].p1 = P1.STAGE_OUTPUTS
  /\ \A k \in 1..OutputsBegun :
       LET output == cer.request.tx.outputs[k]
       IN /\ ChunksOf(k, P2_Output.DATUM_CHUNK) # <<>>
               => /\ HasInlineDatum(output)
                  /\ WellFormedChunks(ChunksOf(k, P2_Output.DATUM_CHUNK),
                                      Val(output.datum).datumHex)
          /\ ChunksOf(k, P2_Output.SCRIPT_CHUNK) # <<>>
               => /\ HasReferenceScript(output)
                  /\ WellFormedChunks(ChunksOf(k, P2_Output.SCRIPT_CHUNK),
                                      Val(output.referenceScriptHex))

\* An inline datum of 2C + 1 bytes has been sent: one chunk of C bytes and a
\* last chunk of one byte, each under its length prefix.
C22_Witness ==
  /\ cer.status = "done"
  /\ HasInlineDatum(cer.request.tx.outputs[1])
  /\ Len(ChunksOf(1, P2_Output.DATUM_CHUNK)) = 2
  /\ SubSeq(ChunksOf(1, P2_Output.DATUM_CHUNK)[1].data.bytes, 1, 4)
       = << 0, 0, 0, MAX_CHUNK_SIZE >>
  /\ SubSeq(ChunksOf(1, P2_Output.DATUM_CHUNK)[2].data.bytes, 1, 4)
       = << 0, 0, 0, 1 >>
  /\ Len(ChunksOf(1, P2_Output.DATUM_CHUNK)[2].data.bytes) = 5

\* The path field of each element of a list, in the list's order.
PathsOf(elements) == [i \in 1..Len(elements) |-> elements[i].path]

\* The paths of the inputs that have one.
StatedInputPaths(inputs) ==
  [i \in 1..Len(SelectSeq(inputs, LAMBDA x : NotNull(x.path))) |->
     Val(SelectSeq(inputs, LAMBDA x : NotNull(x.path))[i].path)]

\* What the claim lets one certificate contribute.
StatedCertificatePaths(cert) ==
  CASE cert.type \in {"STAKE_DELEGATION", "STAKE_DEREGISTRATION"}
         /\ cert.stakeCredential.type = "KEY_PATH" ->
         << cert.stakeCredential.path >>
    [] cert.type = "STAKE_POOL_REGISTRATION" ->
            PathsOf(SelectSeq(cert.pool.owners,
                              LAMBDA owner : owner.type = "DEVICE_OWNED"))
         \o (IF cert.pool.poolKey.type = "DEVICE_OWNED"
             THEN << cert.pool.poolKey.path >> ELSE <<>>)
    [] cert.type = "STAKE_POOL_RETIREMENT" -> << cert.path >>
    [] OTHER -> <<>>

\* The witness list the claim states for a request, before deduplication.
StatedWitnessList(request) ==
  LET tx == request.tx
  IN    StatedInputPaths(tx.inputs)
     \o Flatten([i \in 1..Len(tx.certificates) |->
                   StatedCertificatePaths(tx.certificates[i])])
     \o PathsOf([i \in 1..Len(SelectSeq(tx.withdrawals,
                    LAMBDA w : w.stakeCredential.type = "KEY_PATH")) |->
                   SelectSeq(tx.withdrawals,
                     LAMBDA w : w.stakeCredential.type = "KEY_PATH")[i]
                     .stakeCredential])
     \o PathsOf(SelectSeq(tx.requiredSigners, LAMBDA r : r.type = "PATH"))
     \o StatedInputPaths(tx.collateralInputs)
     \o request.additionalWitnessPaths

\* C23: for a signing mode other than multisig the witness list before
\* deduplication is, in this order: the paths of the inputs that have one;
\* per certificate in transaction order the key-path stake credential of a
\* delegation or deregistration, the device-owned owners then the device-owned
\* pool key of a pool registration, the path of a pool retirement; the
\* key-path withdrawal credentials; the required signers given as a path; the
\* paths of the collateral inputs; then additionalWitnessPaths.  Nothing else
\* contributes a path, and the collected paths are that list deduplicated.
C23_WitnessListOfNonMultisig ==
  (Started /\ PassedPreflight
     /\ cer.request.signingMode # "MULTISIG_TRANSACTION")
  => /\ witnessPathsToUniquify(cer.request) = StatedWitnessList(cer.request)
     /\ cer.witnessPaths = FirstOccurrences(StatedWitnessList(cer.request))

\* A pool registration signed by its operator: a third-party owner gives no
\* path, the device-owned owner comes before the pool key, and the additional
\* paths come last.
C23_Witness ==
  /\ cer.status = "done"
  /\ cer.request.signingMode = "POOL_REGISTRATION_AS_OPERATOR"
  /\ Len(cer.request.tx.certificates) = 1
  /\ \E i \in 1..Len(cer.request.tx.certificates[1].pool.owners) :
       cer.request.tx.certificates[1].pool.owners[i].type = "THIRD_PARTY"
  /\ Len(cer.request.additionalWitnessPaths) > 0
  /\ \E i, j \in 1..Len(cer.witnessPaths) :
       /\ i < j
       /\ cer.witnessPaths[i] = PathStake
       /\ cer.witnessPaths[j] = PathPoolCold

\* a is the beginning of b.
IsPrefix(a, b) == Len(a) <= Len(b) /\ a = SubSeq(b, 1, Len(a))

\* The sub-tags of the richer layout of a pool registration, in order.
RicherLayout(pool) ==
     << P2_Pool.INIT, P2_Pool.POOL_KEY, P2_Pool.VRF_KEY, P2_Pool.FINANCIALS,
        P2_Pool.REWARD_ACCOUNT >>
  \o [i \in 1..Len(pool.owners) |-> P2_Pool.OWNERS]
  \o [i \in 1..Len(pool.relays) |-> P2_Pool.RELAYS]
  \o << P2_Pool.METADATA, P2_Pool.CONFIRMATION >>

\* The sub-tags of the legacy layout of a pool registration, in order.
LegacyLayout(pool) ==
     << P2_PoolLegacy.POOL_PARAMS >>
  \o [i \in 1..Len(pool.owners) |-> P2_PoolLegacy.OWNERS]
  \o [i \in 1..Len(pool.relays) |-> P2_PoolLegacy.RELAYS]
  \o << P2_PoolLegacy.METADATA, P2_PoolLegacy.CONFIRMATION >>

\* The number of certificates begun: of certificate messages sent.
CertificatesBegun == CountIn(SentOf(P1.STAGE_CERTIFICATES), P2_UNUSED)

\* The sub-tags of the messages that follow the k-th certificate message.
SubTagsOfCertificate(k) ==
  [i \in 1..(Len(MessagesOfCertificate(k)) - 1) |->
     MessagesOfCertificate(k)[i + 1].p2]

\* The first message after the k-th certificate message is the opening
\* message of the richer layout.
OpensRicherLayout(k) ==
  MessagesOfCertificate(k)[2].data.fn = "serializePoolInitialParams"

\* C24: a stake-pool-registration certificate produces its certificate
\* message followed by exactly one complete sub-sequence before any message
\* of the next certificate or stage: the richer layout (init, pool key, VRF
\* key, financials, reward account, one message per owner, one per relay,
\* metadata, confirmation) iff the version supports pool registration as
\* operator, otherwise the legacy layout (pool params, owners, relays,
\* metadata, confirmation); the two layouts are never mixed within one
\* certificate, and other certificates have no sub-sequence.
C24_PoolRegistrationOneLayout ==
  /\ Contiguous(PlacesOf(P1.STAGE_CERTIFICATES))
  /\ CertificatesBegun <= Len(cer.request.tx.certificates)
  /\ Count(P1.STAGE_CERTIFICATES) > 0
       => SentOf(P1.STAGE_CERTIFICATES)[1].p2 = P2_UNUSED
  /\ \A k \in 1..CertificatesBegun :
       LET cert == cer.request.tx.certificates[k]
           tags == SubTagsOfCertificate(k)
           richer ==
             getCompatibility(cer.version).supportsPoolRegistrationAsOperator
           layout == IF cert.type # "STAKE_POOL_REGISTRATION" THEN <<>>
                     ELSE IF richer THEN RicherLayout(cert.pool)
                     ELSE LegacyLayout(cert.pool)
       IN /\ IsPrefix(tags, layout)
          /\ (k < CertificatesBegun \/ SentFromRank(8)) => tags = layout
          /\ Len(tags) > 0 => (OpensRicherLayout(k) <=> richer)

\* A pool registration with two owners and one relay has been signed on a
\* version without pool registration as operator: the six messages of the
\* legacy layout followed its certificate message.
C24_Witness ==
  /\ cer.status = "done"
  /\ ~getCompatibility(cer.version).supportsPoolRegistrationAsOperator
  /\ \E k \in 1..CertificatesBegun :
       /\ cer.request.tx.certificates[k].type = "STAKE_POOL_REGISTRATION"
       /\ Len(cer.request.tx.certificates[k].pool.owners) = 2
       /\ SubTagsOfCertificate(k)
            = << P2_PoolLegacy.POOL_PARAMS, P2_PoolLegacy.OWNERS,
                 P2_PoolLegacy.OWNERS, P2_PoolLegacy.RELAYS,
                 P2_PoolLegacy.METADATA, P2_PoolLegacy.CONFIRMATION >>

\* What a token bundle is to be sent as: per asset group in the caller's
\* order its sub-tag and the group, then per token of the group in the
\* caller's order its sub-tag and the token.
StatedBundleEntries(tokenBundle) ==
  Flatten([g \in 1..Len(tokenBundle) |->
                << << P2_TokenBundle.ASSET_GROUP, tokenBundle[g] >> >>
             \o [t \in 1..Len(tokenBundle[g].tokens) |->
                   << P2_TokenBundle.TOKEN, tokenBundle[g].tokens[t] >>]])

IsBundleMessage(m) ==
  m.p2 \in { P2_TokenBundle.ASSET_GROUP, P2_TokenBundle.TOKEN }

\* The messages msgs of one parent (an output, the mint, the collateral
\* output), which open with its basic data, carry the bundle right after the
\* basic data, under the parent's stage tag p1, as stated and in full once
\* the parent goes on.
BundleSentAsStated(msgs, p1, tokenBundle) ==
  LET entries == SelectSeq(msgs, IsBundleMessage)
      sentEntries == [i \in 1..Len(entries) |->
                        << entries[i].p2, entries[i].data.arg >>]
  IN /\ \A i \in 1..Len(msgs) : msgs[i].p1 = p1
     /\ \A i \in 1..Len(msgs) :
          IsBundleMessage(msgs[i]) <=> i \in 2..(Len(entries) + 1)
     /\ IsPrefix(sentEntries, StatedBundleEntries(tokenBundle))
     /\ Len(msgs) > Len(entries) + 1
          => sentEntries = StatedBundleEntries(tokenBundle)

\* C25: a token bundle is sent as, for each asset group in the caller's
\* order, one asset-group message immediately followed by one token message
\* per token of that group in the caller's order, before the next group's
\* message; no group or token is reordered, merged or dropped, and the
\* messages carry the stage tag of their parent: OUTPUTS, MINT or
\* COLLATERAL_OUTPUT.
C25_TokenBundleInCallerOrder ==
  /\ \A k \in 1..OutputsBegun :
       BundleSentAsStated(MessagesOfOutput(k), P1.STAGE_OUTPUTS,
                          cer.request.tx.outputs[k].tokenBundle)
  /\ Count(P1.STAGE_MINT) > 0
       => BundleSentAsStated(SentOf(P1.STAGE_MINT), P1.STAGE_MINT,
                             Val(cer.request.tx.mint))
  /\ Count(P1.STAGE_COLLATERAL_OUTPUT) > 0
       => BundleSentAsStated(SentOf(P1.STAGE_COLLATERAL_OUTPUT),
                             P1.STAGE_COLLATERAL_OUTPUT,
                             Val(cer.request.tx.collateralOutput).tokenBundle)
  /\ \A i \in 1..Len(cer.sent) :
       (IsBundleMessage(cer.sent[i])
          /\ cer.sent[i].data.fn \in {"serializeAssetGroup", "serializeToken"})
       => cer.sent[i].p1 \in { P1.STAGE_OUTPUTS, P1.STAGE_MINT,
                               P1.STAGE_COLLATERAL_OUTPUT }

\* A bundle of two groups, of two tokens and of one, has been sent in an
\* output, in the mint and in the collateral output of one transaction.
C25_Witness ==
  /\ cer.status = "done"
  /\ \A p1 \in { P1.STAGE_OUTPUTS, P1.STAGE_MINT, P1.STAGE_COLLATERAL_OUTPUT } :
       \E i \in 1..(Len(cer.sent) - 4) :
         /\ \A n \in 0..4 : cer.sent[i + n].p1 = p1
         /\ [n \in 1..5 |-> cer.sent[i + n - 1].p2]
              = << P2_TokenBundle.ASSET_GROUP, P2_TokenBundle.TOKEN,
                   P2_TokenBundle.TOKEN, P2_TokenBundle.ASSET_GROUP,
                   P2_TokenBundle.TOKEN >>
         /\ [n \in 1..5 |-> cer.sent[i + n - 1].data.arg]
              = << TheBundle[1], "tokenA1", "tokenA2", TheBundle[2], "tokenB1" >>

\* C26: the COLLATERAL_OUTPUT stage produces only basic data, token-bundle
\* entries and confirm: no datum, datum-chunk, reference-script or
\* script-chunk message ever carries the COLLATERAL_OUTPUT stage tag, even
\* when the collateral output has a datum or a reference script.
C26_CollateralOutputWithoutDatumOrScript ==
  LET msgs == SentOf(P1.STAGE_COLLATERAL_OUTPUT)
  IN /\ \A i \in 1..Len(msgs) :
          /\ msgs[i].p2 \notin { P2_Output.DATUM, P2_Output.DATUM_CHUNK,
                                 P2_Output.SCRIPT, P2_Output.SCRIPT_CHUNK }
          /\ msgs[i].p2 \in { P2_Output.BASIC_DATA, P2_TokenBundle.ASSET_GROUP,
                              P2_TokenBundle.TOKEN, P2_Output.CONFIRM }
          /\ msgs[i].p2 = P2_Output.BASIC_DATA <=> i = 1
     /\ SentFromRank(16) \/ cer.status = "done"
          => /\ NotNull(cer.request.tx.collateralOutput) <=> Len(msgs) > 0
             /\ Len(msgs) > 0
                  => /\ msgs[Len(msgs)].p2 = P2_Output.CONFIRM
                     /\ CountIn(msgs, P2_Output.CONFIRM) = 1

\* A collateral output with tokens, an inline datum and a reference script,
\* both longer than C bytes, has been sent in seven messages.
C26_Witness ==
  /\ cer.status = "done"
  /\ NotNull(cer.request.tx.collateralOutput)
  /\ HasLongInlineDatum(Val(cer.request.tx.collateralOutput))
  /\ HasLongReferenceScript(Val(cer.request.tx.collateralOutput))
  /\ Count(P1.STAGE_COLLATERAL_OUTPUT) = 7

\* The errors of the validator's checks of the required signers.
RequiredSignerErrors ==
  { "Required signers", "Required signers in ordinary transaction",
    "Required signers in multisig transaction" }

\* The ceremony ended in validation: it threw before any message was sent.
FailedValidation ==
  cer.status = "thrown" /\ Len(cer.sent) = 0 /\ cer.error # ""

\* C27: for a request with at least one required signer, validation fails if
\* the version lacks script/datum (Alonzo) support, whatever the signing mode;
\* if the version has that support but lacks support for required signers in
\* ordinary transactions, validation fails for the ordinary and the multisig
\* signing modes, and the pool-registration and script-enabled modes pass the
\* checks of the required signers.
C27_RequiredSignersGate ==
  LET c == getCompatibility(cer.version)
      mode == cer.request.signingMode
  IN (Started /\ Len(cer.request.tx.requiredSigners) > 0)
     => /\ ~c.supportsAlonzo => FailedValidation
        /\ (c.supportsAlonzo /\ ~c.supportsReqSignersInOrdinaryTx
              /\ mode \in {"ORDINARY_TRANSACTION", "MULTISIG_TRANSACTION"})
             => FailedValidation
        /\ (c.supportsAlonzo /\ ~c.supportsReqSignersInOrdinaryTx
              /\ mode \in {"POOL_REGISTRATION_AS_OPERATOR", "PLUTUS_TRANSACTION"})
             => cer.error \notin RequiredSignerErrors
        /\ (c.supportsAlonzo /\ ~c.supportsReqSignersInOrdinaryTx
              /\ mode \in {"POOL_REGISTRATION_AS_OPERATOR", "PLUTUS_TRANSACTION"}
              /\ \A feature \in { AmendedCheckOrder[i] :
                                     i \in 1..Len(AmendedCheckOrder) }
                                 \ RequiredSignerErrors :
                   ~Violates(feature, cer.version, cer.request))
             => ~FailedValidation

\* A multisig request with a required signer has been rejected, for its
\* required signer, by a version that has Alonzo support.
C27_Witness ==
  /\ FailedValidation
  /\ Len(cer.request.tx.requiredSigners) > 0
  /\ getCompatibility(cer.version).supportsAlonzo
  /\ ~getCompatibility(cer.version).supportsReqSignersInOrdinaryTx
  /\ cer.request.signingMode = "MULTISIG_TRANSACTION"
  /\ cer.error = "Required signers in multisig transaction"

\* A ceremony without what the responses may influence: the responses
\* themselves, the transaction hash, the witness signatures, the supplement,
\* and the result put together from them.
WithoutResponseData(c) ==
  [c EXCEPT !.seed = 0, !.recv = <<>>, !.txHashHex = IsNull(@),
            !.auxiliaryDataSupplement = IsNull(@),
            !.witnesses = [i \in 1..Len(@) |-> @[i].path],
            !.result = IsNull(@)]

\* C28: the messages a ceremony produces (stage tags, sub-tags, payloads,
\* expected lengths) are a function of version and request only: of two
\* ceremonies with the same version and request, answered with different
\* bytes, one has sent the beginning of what the other has sent, and after
\* equally many steps they differ in nothing but the responses, the hash, the
\* witness signatures and the supplement.
C28_MessagesIndependentOfResponses ==
  ( /\ Len(ceremonies) = 2
    /\ ceremonies[1].version = ceremonies[2].version
    /\ ceremonies[1].request = ceremonies[2].request )
  => /\ \/ IsPrefix(ceremonies[1].sent, ceremonies[2].sent)
        \/ IsPrefix(ceremonies[2].sent, ceremonies[1].sent)
     /\ ( /\ StepsTaken(ceremonies[1]) = StepsTaken(ceremonies[2])
          /\ ceremonies[1].status # "aborted"
          /\ ceremonies[2].status # "aborted" )
        => WithoutResponseData(ceremonies[1]) = WithoutResponseData(ceremonies[2])

\* The same voting registration has been signed twice on the same version
\* under different responses: the messages are the same, while the hashes,
\* the witness signatures and the supplements differ.
C28_Witness ==
  /\ Len(ceremonies) = 2
  /\ ceremonies[1].version = ceremonies[2].version
  /\ ceremonies[1].request = ceremonies[2].request
  /\ ceremonies[1].status = "done" /\ ceremonies[2].status = "done"
  /\ ceremonies[1].recv # ceremonies[2].recv
  /\ ceremonies[1].sent = ceremonies[2].sent
  /\ ceremonies[1].txHashHex # ceremonies[2].txHashHex
  /\ NotNull(ceremonies[1].auxiliaryDataSupplement)
  /\ ceremonies[1].auxiliaryDataSupplement # ceremonies[2].auxiliaryDataSupplement
  /\ Len(ceremonies[1].witnesses) > 0
  /\ ceremonies[1].witnesses[1].witnessSignatureHex
       # ceremonies[2].witnesses[1].witnessSignatureHex

\* The witness count declared in the INIT message.
DeclaredWitnessCount == cer.sent[1].data.arg.numWitnesses

\* C29: the witness count declared in the INIT message is the length of the
\* deduplicated witness-path list; no more WITNESSES messages than that are
\* ever produced, and exactly that many by a ceremony that completes.
C29_DeclaredWitnessCount ==
  Len(cer.sent) > 0
  => /\ cer.sent[1].p1 = P1.STAGE_INIT
     /\ DeclaredWitnessCount = Len(cer.witnessPaths)
     /\ DeclaredWitnessCount
          = Len(FirstOccurrences(witnessPathsToUniquify(cer.request)))
     /\ Count(P1.STAGE_WITNESSES) <= DeclaredWitnessCount
     /\ cer.status = "done" => Count(P1.STAGE_WITNESSES) = DeclaredWitnessCount

\* A completed ceremony whose witness list held five paths before
\* deduplication: INIT declared three witnesses and three were requested.
C29_Witness ==
  /\ cer.status = "done"
  /\ Len(witnessPathsToUniquify(cer.request)) = 5
  /\ DeclaredWitnessCount = 3
  /\ Count(P1.STAGE_WITNESSES) = 3

\* The version places the auxiliary data after the withdrawals.
LegacyAuxPlacement ==
  /\ getCompatibility(cer.version).isCompatible
  /\ ~getCompatibility(cer.version).supportsCatalystRegistration
  /\ ~getCompatibility(cer.version).supportsCIP36

HasVotingRegistration ==
  /\ NotNull(cer.request.tx.auxiliaryData)
  /\ Val(cer.request.tx.auxiliaryData).type = "CIP36_REGISTRATION"

\* C30: the assertions of the auxiliary-data stages never fail for a request
\* that passed validation.  On every version that places the auxiliary data
\* after the withdrawals a voting registration of either format is rejected
\* by the validator, so whenever the legacy AUX_DATA stage is reached the
\* auxiliary data is an arbitrary hash.
C30_AuxAssertionsNeverFail ==
  /\ cer.error # "Auxiliary data type not implemented"
  /\ (Started /\ LegacyAuxPlacement /\ HasVotingRegistration)
       => /\ FailedValidation
          /\ Val(cer.request.tx.auxiliaryData).params.format = "CIP_15"
               => ~PassedPreflight
          /\ Val(cer.request.tx.auxiliaryData).params.format = "CIP_36"
               => ~PassedPreflight
  /\ (LegacyAuxPlacement /\ AuxPlaces # {})
       => /\ Val(cer.request.tx.auxiliaryData).type = "ARBITRARY_HASH"
          /\ \A i \in AuxPlaces : cer.sent[i].data.fn = "hex_to_buf"

\* On a version that places the auxiliary data after the withdrawals a
\* request with an auxiliary data hash has passed validation, reached the
\* legacy stage and been signed to the end without an error.
C30_Witness ==
  /\ cer.status = "done"
  /\ cer.error = ""
  /\ LegacyAuxPlacement
  /\ PassedPreflight
  /\ NotNull(cer.request.tx.auxiliaryData)
  /\ Val(cer.request.tx.auxiliaryData).type = "ARBITRARY_HASH"
  /\ Cardinality(AuxPlaces) = 1

====
